---- MODULE Spec2Model ----
(***************************************************************************)
(* The SSE stream engine of bnk-ai (createSSEStream) as a state machine.   *)
(*                                                                         *)
(* Text is a sequence of characters.  A character is written as a string;  *)
(* the characters that matter to the engine are kept apart and everything  *)
(* the engine treats as opaque is abbreviated to one character:            *)
(*   "LF"      the newline \n                                              *)
(*   "SP"      a blank                                                     *)
(*   ":"       the colon that opens an SSE comment line                    *)
(*   "data:"   the field name data: of an SSE line                         *)
(*   "[DONE]"  the payload [DONE]                                          *)
(*   "x"       a JSON chunk {"choices":[{"delta":{"content":"x"}}]}        *)
(*   "e'"      the same with the two-byte content character e-acute;      *)
(*             on the wire it is the byte pair C3 A9                       *)
(*   "{err}"   the JSON object {"error":{"message":"X"}}                   *)
(*   "{err0}"  the JSON object {"error":{"message":""}}                    *)
(*   "{resp}"  the JSON object {"response":"x"} of Ollama                  *)
(*   "{resp0}" the JSON object {"response":""}                             *)
(*   "{done}"  the JSON object {"done":true}                               *)
(*   "{resp,done}"  the JSON object {"response":"x","done":true}           *)
(*   "{msg}"   the JSON object {"message":{}}                              *)
(*   "null"    the JSON value null                                         *)
(*   "{bad"    the malformed JSON text {invalid json}                      *)
(*   "FFFD"    the replacement character a decoder emits for bad bytes     *)
(* The upstream delivers bytes: every character above but "e'" and "FFFD"  *)
(* is one byte of the same name.                                           *)
(***************************************************************************)
EXTENDS Integers, Sequences, FiniteSets, TLC

\* The largest number of frames in the body of an upstream input.
MaxFrames == 2

\* The same for the runs in which handlers are missing.
MaxHandlerFrames == 1

\* The same for the runs with a debug configuration.
MaxDebugFrames == 1

\* The same for the runs of the three plugins.
MaxPluginFrames == 2
MaxSnifferFrames == 2
MaxLineFrames == 2
MaxSharedFrames == 1
MaxFairFrames == 2
MaxThrowingFrames == 2
MaxRevisionFrames == 1
MaxMultiLineFrames == 2

----------------------------------------------------------------------------
\* Text helpers: what String.prototype.trim / startsWith / split do.

IsWhitespace(c) == c \in {"SP", "LF"}

RECURSIVE TrimStart(_)
TrimStart(s) ==
    IF s # <<>> /\ IsWhitespace(Head(s)) THEN TrimStart(Tail(s)) ELSE s

RECURSIVE TrimEnd(_)
TrimEnd(s) ==
    IF s # <<>> /\ IsWhitespace(s[Len(s)])
    THEN TrimEnd(SubSeq(s, 1, Len(s) - 1))
    ELSE s

Trim(s) == TrimEnd(TrimStart(s))

StartsWith(s, p) == Len(s) >= Len(p) /\ SubSeq(s, 1, Len(p)) = p

\* The index of the first occurrence of d in s at or after i, 0 when none.
RECURSIVE IndexOf(_, _, _)
IndexOf(s, d, i) ==
    IF i + Len(d) - 1 > Len(s) THEN 0
    ELSE IF SubSeq(s, i, i + Len(d) - 1) = d THEN i
    ELSE IndexOf(s, d, i + 1)

\* s.split(d) for a non-empty separator d: the pieces between the leftmost,
\* non-overlapping occurrences of d; always at least one piece.
RECURSIVE Split(_, _)
Split(s, d) ==
    LET i == IndexOf(s, d, 1)
    IN  IF i = 0 THEN <<s>>
        ELSE <<SubSeq(s, 1, i - 1)>> \o Split(SubSeq(s, i + Len(d), Len(s)), d)

RECURSIVE Flatten(_)
Flatten(ss) == IF ss = <<>> THEN <<>> ELSE Head(ss) \o Flatten(Tail(ss))

RECURSIVE MapTrim(_)
MapTrim(ss) == IF ss = <<>> THEN <<>> ELSE <<Trim(Head(ss))>> \o MapTrim(Tail(ss))

----------------------------------------------------------------------------
\* TextEncoder / TextDecoder.

\* encoder.encode(text): the UTF-8 bytes of a text.
RECURSIVE Encode(_)
Encode(text) ==
    IF text = <<>> THEN <<>>
    ELSE (CASE Head(text) = "e'"   -> <<"C3", "A9">>
            [] Head(text) = "FFFD" -> <<"EF", "BF", "BD">>
            [] OTHER               -> <<Head(text)>>) \o Encode(Tail(text))

\* The bytes that can only continue a multi-byte character.
IsContinuation(b) == b \in {"A9", "BF", "BD"}

\* How many continuation bytes a lead byte announces (0: not a lead byte).
Need(b) == CASE b = "C3" -> 1 [] b = "EF" -> 2 [] OTHER -> 0

\* The character a complete multi-byte sequence stands for.
CharOf(bs) ==
    CASE bs = <<"C3", "A9">>       -> "e'"
      [] bs = <<"EF", "BF", "BD">> -> "FFFD"
      [] OTHER                     -> "FFFD"

\* decoder.decode(bytes, {stream: true}) of a non-fatal decoder whose state is
\* `pending`, the bytes of an unfinished character: the text decoded, and the
\* bytes kept for the next call.
RECURSIVE DecodeFrom(_, _, _)
DecodeFrom(pending, bytes, text) ==
    IF bytes = <<>> THEN [text |-> text, pending |-> pending]
    ELSE LET b == Head(bytes) IN
         IF pending # <<>>
         THEN IF IsContinuation(b)
              THEN LET now == Append(pending, b) IN
                   IF Len(now) = 1 + Need(Head(now))
                   THEN DecodeFrom(<<>>, Tail(bytes), Append(text, CharOf(now)))
                   ELSE DecodeFrom(now, Tail(bytes), text)
              ELSE \* the unfinished character is malformed; b is looked at again
                   DecodeFrom(<<>>, bytes, Append(text, "FFFD"))
         ELSE IF Need(b) > 0 THEN DecodeFrom(<<b>>, Tail(bytes), text)
              ELSE IF IsContinuation(b)
                   THEN DecodeFrom(<<>>, Tail(bytes), Append(text, "FFFD"))
                   ELSE DecodeFrom(<<>>, Tail(bytes), Append(text, b))

Decode(pending, bytes) == DecodeFrom(pending, bytes, <<>>)

----------------------------------------------------------------------------
\* JSON.parse on the abbreviated alphabet.  A text parses when, JSON white
\* space aside, it is one of the JSON characters; the value is a record
\* holding the fields the code reads.

JsonChars ==
    {"x", "e'", "{err}", "{err0}", "{resp}", "{resp0}", "{done}", "{resp,done}", "{msg}", "null"}

\* The value of a JSON character: whether it is null, and the fields
\* error.message, choices[0].delta.content, done and response of an object.
JSONValue(c) ==
    [ok          |-> TRUE,
     isNull      |-> c = "null",
     hasError    |-> c \in {"{err}", "{err0}"},
     message     |-> IF c = "{err}" THEN "X" ELSE "",
     content     |-> IF c \in {"x", "e'"} THEN <<c>> ELSE <<>>,
     done        |-> c \in {"{done}", "{resp,done}"},
     hasResponse |-> c \in {"{resp}", "{resp0}", "{resp,done}"},
     response    |-> IF c \in {"{resp}", "{resp,done}"} THEN <<"x">> ELSE <<>>]

\* JSON.parse throws (ok is FALSE) for a text that is not JSON.
JSONParse(text) ==
    LET t == Trim(text) IN
    IF Len(t) = 1 /\ t[1] \in JsonChars
    THEN JSONValue(t[1])
    ELSE [ok |-> FALSE, isNull |-> FALSE, hasError |-> FALSE, message |-> "", content |-> <<>>,
          done |-> FALSE, hasResponse |-> FALSE, response |-> <<>>]

\* text.startsWith("{"): the JSON objects of the alphabet open with a brace,
\* and so does the malformed text.
StartsWithBrace(text) == text # <<>> /\ Head(text) \in (JsonChars \ {"null"}) \cup {"{bad"}

\* text.replace(/^data:\s*/, "")
StripDataPrefix(text) ==
    IF StartsWith(text, <<"data:">>) THEN TrimStart(Tail(text)) ELSE text

----------------------------------------------------------------------------
\* The plugin (OpenRouterPlugin).

delimiter == <<"LF", "LF">>

\* The result of parseServerSentEvent: the sentinel "[DONE]", a text, or
\* null (the engine tests `if (parsed)`, so null and "" are the same to it);
\* `threw` says that the call threw instead of returning.
ParsedNull == [done |-> FALSE, text |-> <<>>, isNull |-> TRUE, threw |-> FALSE]

ParsedDone == [done |-> TRUE, text |-> <<>>, isNull |-> FALSE, threw |-> FALSE]

ParsedText(text) == [done |-> FALSE, text |-> text, isNull |-> FALSE, threw |-> FALSE]

ParsedThrew == [done |-> FALSE, text |-> <<>>, isNull |-> FALSE, threw |-> TRUE]

\* OpenRouterPlugin.parseServerSentEvent
parseServerSentEvent(line) ==
    IF ~StartsWith(line, <<"data:">>) THEN ParsedNull
    ELSE LET jsonString == Trim(StripDataPrefix(line)) IN
         IF jsonString = <<"[DONE]">> THEN ParsedDone
         ELSE LET parsed == JSONParse(jsonString) IN
              IF parsed.ok /\ ~parsed.isNull /\ parsed.content # <<>>
              THEN ParsedText(parsed.content)
              ELSE ParsedNull

\* OllamaPlugin.parseServerSentEvent without its try/catch.
OllamaParseServerSentEventNoCatch(line) ==
    LET data == JSONParse(Trim(line)) IN
    IF ~data.ok \/ data.isNull THEN ParsedThrew
    ELSE IF data.done THEN ParsedDone
    ELSE IF data.hasResponse THEN ParsedText(data.response)
    ELSE ParsedNull

\* OllamaPlugin.parseServerSentEvent: JSON.parse throwing, and data.done
\* throwing for null, are caught and answered with null.
OllamaParseServerSentEvent(line) ==
    LET data == JSONParse(Trim(line)) IN
    IF ~data.ok \/ data.isNull THEN ParsedNull
    ELSE IF data.done THEN ParsedDone
    ELSE IF data.hasResponse THEN ParsedText(data.response)
    ELSE ParsedNull

\* plugin.parseServerSentEvent(line)
PluginParse(p, line) ==
    IF p = "ollama-plugin.ts" THEN OllamaParseServerSentEvent(line)
    ELSE parseServerSentEvent(line)

\* The plugins: the two revisions of OpenRouterPlugin, part_002 that leaves
\* the delimiter unset and part_003 that sets it, and OllamaPlugin.
Plugins == {"part_002", "part_003", "ollama-plugin.ts"}

\* Whether the plugin has a delimiter, and the delimiter it has.
PluginHasDelimiter(p) == p # "part_002"

PluginDelimiter(p) == IF p = "ollama-plugin.ts" THEN <<"LF">> ELSE delimiter

\* What fetch gave the plugin: a rejection (network failure), or a response
\* that is ok or not and has a body or not.
ResponseRejected == [fetch |-> "rejects", ok |-> FALSE, body |-> FALSE]

ResponseOk == [fetch |-> "resolves", ok |-> TRUE, body |-> TRUE]

Responses ==
    {ResponseRejected} \cup { [fetch |-> "resolves", ok |-> o, body |-> b] : o, b \in BOOLEAN }

PlainResponses == {ResponseRejected, ResponseOk}

\* prepareRequest throwing for a response that is not ok only.
prepareRequestNoBodyTest(p, resp) ==
    IF resp.fetch = "rejects" THEN "throws"
    ELSE IF ~resp.ok THEN "throws"
    ELSE "reader"

\* plugin.prepareRequest: `await fetch(...)`, then
\* `if (!response.ok || !response.body) throw ...`, else the body's reader.
prepareRequest(p, resp) ==
    IF resp.fetch = "rejects" THEN "throws"
    ELSE IF ~resp.ok \/ ~resp.body THEN "throws"
    ELSE "reader"

----------------------------------------------------------------------------
\* The debug gate.  A debug configuration is absent, a boolean, or a record
\* of the optional flags all, plugin and sse; a flag is "undefined", "true"
\* or "false".

Flags == {"undefined", "true", "false"}

DebugUndefined ==
    [kind |-> "undefined", value |-> "undefined",
     all |-> "undefined", plugin |-> "undefined", sse |-> "undefined"]

DebugBoolean(b) ==
    [kind |-> "boolean", value |-> b,
     all |-> "undefined", plugin |-> "undefined", sse |-> "undefined"]

DebugObject(a, p, s) ==
    [kind |-> "object", value |-> "undefined", all |-> a, plugin |-> p, sse |-> s]

DebugConfigs ==
    {DebugUndefined} \cup {DebugBoolean(b) : b \in {"true", "false"}}
        \cup {DebugObject(a, p, s) : a \in Flags, p \in Flags, s \in Flags}

Categories == {"all", "plugin", "sse"}

\* !!v of a flag.
Truthy(v) == v = "true"

\* `if (debug)`: undefined and false are falsy, true and every object truthy.
DebugTruthy(d) == d.kind = "object" \/ (d.kind = "boolean" /\ Truthy(d.value))

\* The gate looking at the category's flag only.
isDebugEnabledNoAll(d, category) ==
    IF ~DebugTruthy(d) THEN FALSE
    ELSE IF d.kind = "boolean" THEN Truthy(d.value)
    ELSE Truthy(d[category])

isDebugEnabled(d, category) ==
    IF ~DebugTruthy(d) THEN FALSE
    ELSE IF d.kind = "boolean" THEN Truthy(d.value)
    ELSE Truthy(d.all) \/ Truthy(d[category])

----------------------------------------------------------------------------
\* The engine's state.

VARIABLES
    rev,          \* the revision run: "streaming-engine.ts" or, with the error sniffer, "part_001"
    plugin,       \* the provider plugin the caller supplied
    response,     \* the outcome of the plugin's fetch
    handlers,     \* the handlers the caller supplied (a set of their names)
    throwing,     \* those of them that throw when they are called
    debug,        \* the debug configuration the caller supplied
    systemMessage,\* the system message the caller supplied (empty: none)
    input,        \* the bytes the upstream delivers before end-of-input
    pos,          \* how many of them the reader has delivered
    pc,           \* "preparing", "prepared", "streaming", "completed", "errored";
                  \* "unhandled" when an exception left the read loop
    resolved,     \* how createSSEStream's promise settled: "pending", "fulfilled", "rejected"
    pending,      \* decoder: the bytes of a character cut by a chunk boundary
    buffer,       \* the text received after the last complete frame
    fullResponse, \* the aggregate of the text emitted
    out,          \* outbound stream: the chunks queued
    outState,     \* outbound stream: "none" (not constructed), "readable", "closed", "errored"
    outError,     \* outbound stream: the error it holds when errored
    readerLocked, \* the engine holds the upstream reader
    reads,        \* the reads awaited: for each, the length of the trace when it was issued
    other,        \* a second call of createSSEStream with the same plugin object, while it is not running
    trace         \* what happened, in order: handler calls, parser calls, controller calls, throws

vars == <<rev, plugin, response, handlers, throwing, debug, systemMessage, input, pos, pc, resolved, pending, buffer, fullResponse,
          out, outState, outError, readerLocked, reads, other, trace>>

Revisions == {"streaming-engine.ts", "part_001"}

\* What is private to one call of createSSEStream: its upstream, its
\* position in the code, the locals of the call and its outbound stream.
Instance(resp, inp, p, res, pend, buf, full, o, oState, oError, locked, rds, tr, at) ==
    [response |-> resp, input |-> inp, pos |-> p, resolved |-> res, pending |-> pend, buffer |-> buf,
     fullResponse |-> full, out |-> o, outState |-> oState, outError |-> oError, readerLocked |-> locked,
     reads |-> rds, trace |-> tr, pc |-> at]

\* A call that has not run yet.
NewInstance(resp, inp) ==
    Instance(resp, inp, 0, "pending", <<>>, <<>>, <<>>, <<>>, "none", "", FALSE, <<>>, <<>>, "preparing")

\* No second call.
Absent == [NewInstance([fetch |-> "", ok |-> FALSE, body |-> FALSE], <<>>) EXCEPT !.pc = "absent"]

\* The call that is running.
Running ==
    Instance(response, input, pos, resolved, pending, buffer, fullResponse, out, outState, outError,
             readerLocked, reads, trace, pc)

AllHandlers == {"onSystemMessage", "onUserMessage", "onPartial", "onDone", "onError"}

\* One entry of the trace.
Event(ev, role, content, err) ==
    [ev |-> ev, role |-> role, content |-> content, err |-> err]

\* The engine's working state as a record, so that the code between two
\* awaits is a composition of operators; `thrown` is the exception in flight
\* ("" when none) and `term` says whether the loop has returned.
Engine ==
    [rev |-> rev, plugin |-> plugin, handlers |-> handlers, throwing |-> throwing, debug |-> debug, fullResponse |-> fullResponse, out |-> out, outState |-> outState,
     outError |-> outError, reads |-> reads, trace |-> trace, thrown |-> "", term |-> "none"]

\* A handler called without the test that it was supplied.
CallHandlerRequired(s, name, role, content, err) ==
    IF name \in s.handlers
    THEN [s EXCEPT !.trace = Append(@, Event(name, role, content, err))]
    ELSE [s EXCEPT !.thrown = "TypeError",
                   !.trace = Append(@, Event("throw", "", <<>>, "TypeError"))]

Throw(s, err) ==
    [s EXCEPT !.thrown = err, !.trace = Append(@, Event("throw", "", <<>>, err))]

\* A handler's exception swallowed where the handler is called.
CallHandlerGuarded(s, name, role, content, err) ==
    IF name \in s.handlers
    THEN [s EXCEPT !.trace = Append(@, Event(name, role, content, err))]
    ELSE s

\* handlers.onX?.(...): a handler that is not supplied is skipped; what a
\* handler throws leaves the call.
CallHandler(s, name, role, content, err) ==
    IF name \in s.handlers
    THEN LET s1 == [s EXCEPT !.trace = Append(@, Event(name, role, content, err))]
         IN  IF name \in s.throwing THEN Throw(s1, "HandlerError") ELSE s1
    ELSE s

\* The test a revision puts before its diagnostics: the boolean-debug
\* revision part_000 tests `if (debug)`, the others the gate.
DebugGate(s, category) ==
    IF s.rev = "part_000" THEN DebugTruthy(s.debug) ELSE isDebugEnabled(s.debug, category)

\* A diagnostic whose evaluation fails (it reads a field of the flag).
ConsoleDebugThrowing(s, category, msg) ==
    IF DebugGate(s, category)
    THEN [s EXCEPT !.thrown = "TypeError",
                   !.trace = Append(@, Event("throw", "", <<>>, "TypeError"))]
    ELSE s

\* if (isDebugEnabled(debug, category)) console.debug(msg)
ConsoleDebug(s, category, msg) ==
    IF DebugGate(s, category)
    THEN [s EXCEPT !.trace = Append(@, Event("debug", category, <<msg>>, ""))]
    ELSE s

----------------------------------------------------------------------------
\* ReadableStreamDefaultController, as the Streams standard defines it.

ControllerCanCloseOrEnqueue(s) == s.outState = "readable"

\* The stream is constructed without a queuing strategy: the default one,
\* which counts chunks, with a high-water mark of 1.
HighWaterMark == 1

\* controller.desiredSize
ControllerDesiredSize(s) == HighWaterMark - Len(s.out)

\* A write held back while the queue is full.
ControllerEnqueueBounded(s, chunk) ==
    IF ~ControllerCanCloseOrEnqueue(s) THEN Throw(s, "TypeError")
    ELSE IF ControllerDesiredSize(s) <= 0 THEN s
    ELSE [s EXCEPT !.out = Append(@, chunk),
                   !.trace = Append(@, Event("enqueue", "", chunk, ""))]

\* controller.enqueue(chunk)
ControllerEnqueue(s, chunk) ==
    IF ControllerCanCloseOrEnqueue(s)
    THEN [s EXCEPT !.out = Append(@, chunk),
                   !.trace = Append(@, Event("enqueue", "", chunk, ""))]
    ELSE Throw(s, "TypeError")

\* controller.close()
ControllerClose(s) ==
    IF ControllerCanCloseOrEnqueue(s)
    THEN [s EXCEPT !.outState = "closed",
                   !.trace = Append(@, Event("close", "", <<>>, ""))]
    ELSE Throw(s, "TypeError")

\* controller.error(e): nothing when the stream is no longer readable;
\* the queue is reset.
ControllerError(s, err) ==
    IF s.outState = "readable"
    THEN [s EXCEPT !.outState = "errored", !.outError = err, !.out = <<>>,
                   !.trace = Append(@, Event("error", "", <<>>, err))]
    ELSE s

----------------------------------------------------------------------------
\* The error sniffer of revision part_001.

\* The sniffer parsing the trimmed text without removing the data: prefix.
handlePossibleErrorJSONNoPrefix(s, rawText) ==
    LET trimmedText == Trim(rawText)
        parsed      == JSONParse(trimmedText)
    IN  IF ~StartsWithBrace(trimmedText) THEN [s |-> s, hit |-> FALSE]
        ELSE IF parsed.ok /\ parsed.hasError /\ parsed.message # ""
             THEN [s   |-> ControllerError(
                               CallHandler(s, "onError", "assistant", <<>>, parsed.message),
                               parsed.message),
                   hit |-> TRUE]
             ELSE [s |-> s, hit |-> FALSE]

\* The sniffer reporting every JSON object, whatever its fields.
handlePossibleErrorJSONAnyObject(s, rawText) ==
    LET trimmedText == StripDataPrefix(Trim(rawText))
        parsed      == JSONParse(trimmedText)
    IN  IF ~StartsWithBrace(trimmedText) THEN [s |-> s, hit |-> FALSE]
        ELSE IF parsed.ok
             THEN [s   |-> ControllerError(
                               CallHandler(s, "onError", "assistant", <<>>, parsed.message),
                               parsed.message),
                   hit |-> TRUE]
             ELSE [s |-> s, hit |-> FALSE]

\* handlePossibleErrorJSON(rawText, onError, controller): the state after the
\* call and whether it reported an error.
handlePossibleErrorJSON(s, rawText) ==
    LET trimmedText == StripDataPrefix(Trim(rawText))
        parsed      == JSONParse(trimmedText)
    IN  IF ~StartsWithBrace(trimmedText) THEN [s |-> s, hit |-> FALSE]
        ELSE IF parsed.ok /\ parsed.hasError /\ parsed.message # ""
             THEN [s   |-> ControllerError(
                               CallHandler(s, "onError", "assistant", <<>>, parsed.message),
                               parsed.message),
                   hit |-> TRUE]
             ELSE [s |-> s, hit |-> FALSE]

\* Whether this revision runs the sniffer on a frame.
Sniff(s, text) ==
    IF s.rev = "part_001" THEN handlePossibleErrorJSON(s, text) ELSE [s |-> s, hit |-> FALSE]

----------------------------------------------------------------------------
\* Frame processing: the body of the read loop between two awaits.

\* The filter of the loop letting the comment lines through.
IsSSELineNoComment(ln) == ln # <<>>

\* The lines of a frame that reach the parser (in the loop).
IsSSELine(ln) == ln # <<>> /\ ~StartsWith(ln, <<":">>)

\* The lines of the residual buffer that reach the parser.
IsLeftoverLine(ln) == ~StartsWith(ln, <<":">>)

\* The line loop treating a null result as a failure of the stream.
RECURSIVE ParseLinesNullThrows(_, _, _)
ParseLinesNullThrows(s, lines, text) ==
    IF lines = <<>> THEN [s |-> s, done |-> FALSE, text |-> text]
    ELSE LET s1     == [s EXCEPT !.trace = Append(@, Event("parse", "", Head(lines), ""))]
             parsed == PluginParse(s.plugin, Head(lines))
         IN  IF parsed.threw \/ parsed.isNull
             THEN [s |-> Throw(s1, "SyntaxError"), done |-> FALSE, text |-> text]
             ELSE IF parsed.done THEN [s |-> s1, done |-> TRUE, text |-> text]
             ELSE ParseLinesNullThrows(s1, Tail(lines), text \o parsed.text)

\* The loop over the lines of one frame: every line is given to the parser
\* until one parses to the sentinel; the texts are concatenated.
RECURSIVE ParseLines(_, _, _)
ParseLines(s, lines, text) ==
    IF lines = <<>> THEN [s |-> s, done |-> FALSE, text |-> text]
    ELSE LET s1     == [s EXCEPT !.trace = Append(@, Event("parse", "", Head(lines), ""))]
             parsed == PluginParse(s.plugin, Head(lines))
         IN  IF parsed.threw
             THEN [s |-> Throw(s1, "SyntaxError"), done |-> FALSE, text |-> text]
             ELSE IF parsed.done THEN [s |-> s1, done |-> TRUE, text |-> text]
             ELSE ParseLines(s1, Tail(lines), text \o parsed.text)

\* Done without its `return`: the loop goes on after the sentinel.
DoneNoReturn(s) ==
    ControllerClose(CallHandler(s, "onDone", "assistant", s.fullResponse, ""))

\* onDone with the aggregate and the return, the stream left open.
DoneNotClosing(s) ==
    LET s1 == CallHandler(s, "onDone", "assistant", s.fullResponse, "")
    IN  IF s1.thrown # "" THEN s1 ELSE [s1 EXCEPT !.term = "completed"]

\* onDone with the aggregate, then controller.close(), then return.
Done(s) ==
    LET s1 == CallHandler(s, "onDone", "assistant", s.fullResponse, "")
        s2 == IF s1.thrown # "" THEN s1
              ELSE ControllerClose(ConsoleDebug(s1, "sse", "closing stream"))
    IN  IF s2.thrown # "" THEN s2 ELSE [s2 EXCEPT !.term = "completed"]

\* EmitPartial without `fullResponse += eventText`.
EmitPartialNoAggregate(s, eventText) ==
    IF eventText = <<>> THEN s
    ELSE LET s2 == ControllerEnqueue(s, Encode(eventText))
         IN  IF s2.thrown # "" THEN s2
             ELSE CallHandler(s2, "onPartial", "assistant", eventText, "")

\* EmitPartial writing the text as it is instead of its UTF-8 encoding.
EmitPartialUnencoded(s, eventText) ==
    IF eventText = <<>> THEN s
    ELSE LET s1 == [s EXCEPT !.fullResponse = @ \o eventText]
             s2 == ControllerEnqueue(s1, eventText)
         IN  IF s2.thrown # "" THEN s2
             ELSE CallHandler(s2, "onPartial", "assistant", eventText, "")

\* EmitPartial calling onPartial before the text is written.
EmitPartialCallbackFirst(s, eventText) ==
    IF eventText = <<>> THEN s
    ELSE LET s1 == [s EXCEPT !.fullResponse = @ \o eventText]
             s2 == CallHandler(s1, "onPartial", "assistant", eventText, "")
         IN  ConsoleDebug(ControllerEnqueue(s2, Encode(eventText)),
                          "sse", "Emitted partial text")

\* EmitPartial with `fullResponse = eventText`.
EmitPartialOverwrite(s, eventText) ==
    IF eventText = <<>> THEN s
    ELSE LET s1 == [s EXCEPT !.fullResponse = eventText]
             s2 == ControllerEnqueue(s1, Encode(eventText))
         IN  IF s2.thrown # "" THEN s2
             ELSE ConsoleDebug(CallHandler(s2, "onPartial", "assistant", eventText, ""),
                               "sse", "Emitted partial text")

\* if (eventText) { fullResponse += eventText; enqueue; onPartial }
EmitPartial(s, eventText) ==
    IF eventText = <<>> THEN s
    ELSE LET s1 == [s EXCEPT !.fullResponse = @ \o eventText]
             s2 == ControllerEnqueue(s1, Encode(eventText))
             s3 == CallHandler(s2, "onPartial", "assistant", eventText, "")
         IN  IF s2.thrown # "" THEN s2
             ELSE IF s3.thrown # "" THEN s3
             ELSE ConsoleDebug(s3, "sse", "Emitted partial text")

\* The lines of a trimmed frame the parser is given: in the loop the empty
\* lines and the comments are dropped, after the loop only the comments.
LinesToParse(trimmed, inLoop) ==
    LET lines == MapTrim(Split(trimmed, <<"LF">>))
    IN  IF inLoop THEN SelectSeq(lines, IsSSELine) ELSE SelectSeq(lines, IsLeftoverLine)

\* How the trace names the two places a frame is processed.
FrameKind(inLoop) == IF inLoop THEN "loop" ELSE "leftover"

\* A frame whose text is flushed before the sentinel finalizes.
ProcessTextFlushing(s, trimmed, inLoop) ==
    LET s0 == [s EXCEPT !.trace = Append(@, Event("frame", FrameKind(inLoop), trimmed, ""))]
        sn == Sniff(s0, trimmed)
    IN  IF sn.hit THEN [sn.s EXCEPT !.term = "errored"]
        ELSE LET r == ParseLines(s0, LinesToParse(trimmed, inLoop), <<>>)
             IN  IF r.s.thrown # "" THEN r.s
                 ELSE IF r.done THEN Done(EmitPartial(r.s, r.text))
                 ELSE EmitPartial(r.s, r.text)

\* One trimmed, non-empty frame: of the loop (inLoop) or the residual buffer.
ProcessText(s, trimmed, inLoop) ==
    LET s0 == [s EXCEPT !.trace = Append(@, Event("frame", FrameKind(inLoop), trimmed, ""))]
        sn == Sniff(s0, trimmed)
    IN  IF sn.hit THEN [sn.s EXCEPT !.term = "errored"]
        ELSE LET r == ParseLines(s0, LinesToParse(trimmed, inLoop), <<>>)
             IN  IF r.s.thrown # "" THEN r.s
                 ELSE IF r.done THEN Done(r.s)
                 ELSE EmitPartial(r.s, r.text)

\* One iteration of `for (const event of events)`.
ProcessEvent(s, event) ==
    LET trimmed == Trim(event) IN
    IF trimmed = <<>> THEN s ELSE ProcessText(s, trimmed, TRUE)

\* The frame loop going on after the run has ended.
RECURSIVE ProcessEventsAll(_, _)
ProcessEventsAll(s, events) ==
    IF events = <<>> \/ s.thrown # "" THEN s
    ELSE ProcessEventsAll(ProcessEvent(s, Head(events)), Tail(events))

RECURSIVE ProcessEvents(_, _)
ProcessEvents(s, events) ==
    IF events = <<>> \/ s.term # "none" \/ s.thrown # "" THEN s
    ELSE ProcessEvents(ProcessEvent(s, Head(events)), Tail(events))

\* The residual buffer thrown away at end-of-input.
ProcessLeftoverDropped(s, buf) == Done(s)

\* After the loop: the residual buffer, then the final onDone and close.
ProcessLeftover(s, buf) ==
    LET leftover == Trim(buf)
        s1       == IF leftover = <<>> THEN s
                    ELSE ProcessText(ConsoleDebug(s, "sse", "Handling leftover buffer"),
                                     leftover, FALSE)
    IN  IF s1.term # "none" \/ s1.thrown # "" THEN s1 ELSE Done(s1)

\* No catch block: the exception leaves start().
CatchNothing(s) == s

\* The catch block calling onError before it errors the stream.
CatchCallbackFirst(s) ==
    IF s.thrown = "" THEN s
    ELSE LET s1 == CallHandler([s EXCEPT !.thrown = ""], "onError", "assistant", s.fullResponse, s.thrown)
             s2 == ControllerError(s1, s.thrown)
         IN  [ConsoleDebug(s2, "sse", "Caught error in read loop") EXCEPT !.term = "errored"]

\* The catch block reporting an empty partial instead of the aggregate.
CatchEmptyPartial(s) ==
    IF s.thrown = "" THEN s
    ELSE LET s1 == ControllerError([s EXCEPT !.thrown = ""], s.thrown)
         IN  [CallHandler(s1, "onError", "assistant", <<>>, s.thrown)
                 EXCEPT !.term = "errored"]

\* The catch block of the read loop.
Catch(s) ==
    IF s.thrown = "" THEN s
    ELSE LET s1 == ControllerError([s EXCEPT !.thrown = ""], s.thrown)
             s2 == CallHandler(s1, "onError", "assistant", s1.fullResponse, s.thrown)
         IN  [ConsoleDebug(s2, "sse", "Caught error in read loop") EXCEPT !.term = "errored"]

\* The default taken to be the single newline.
DelimiterOrDefaultNewline(p) ==
    IF PluginHasDelimiter(p) THEN PluginDelimiter(p) ELSE <<"LF">>

\* plugin.delimiter ?? "\n\n"
DelimiterOrDefault(p) ==
    IF PluginHasDelimiter(p) THEN PluginDelimiter(p) ELSE <<"LF", "LF">>

\* buffer.split(plugin.delimiter ?? "\n\n") and events.pop()
SplitEvents(s, text) == Split(text, DelimiterOrDefault(s.plugin))
Events(pieces) == SubSeq(pieces, 1, Len(pieces) - 1)
\* The buffer emptied after the split instead of keeping the last piece.
NewBufferDropped(pieces) == <<>>

\* The last two pieces kept, rejoined with a blank line between them.
NewBufferKeepingTwo(pieces) ==
    IF Len(pieces) >= 2
    THEN pieces[Len(pieces) - 1] \o <<"LF", "LF">> \o pieces[Len(pieces)]
    ELSE pieces[Len(pieces)]

NewBuffer(pieces) == pieces[Len(pieces)]

----------------------------------------------------------------------------
\* The upstream inputs explored: up to MaxFrames frames, each ended by the
\* delimiter; or the same with the last delimiter missing; or the same with
\* a closing [DONE] frame.

Frames ==
    { <<"data:", "SP", "x">>,                               \* a text
      <<"data:", "x", "LF", "SP", "LF", "data:", "e'">>,    \* two texts around a blank line
      <<":", "LF", "SP", "LF", ":">>,                       \* comments around a blank line
      <<"data:", "SP", "{err}">>,                           \* an in-band error payload
      <<"data:", "x", "LF", "data:", "[DONE]", "LF", "data:", "x">> }  \* the sentinel between two texts

Bodies == UNION { [1..k -> Frames] : k \in 0..MaxFrames }

RECURSIVE Join(_)
Join(frames) ==
    IF frames = <<>> THEN <<>> ELSE Head(frames) \o delimiter \o Join(Tail(frames))

Unterminated(text) ==
    IF text = <<>> THEN text ELSE SubSeq(text, 1, Len(text) - Len(delimiter))

InputTexts ==
    UNION { { Join(b),
              Unterminated(Join(b)),
              Join(b) \o <<"data:", "[DONE]">> \o delimiter } : b \in Bodies }

Inputs == { Encode(text) : text \in InputTexts }

HandlerSets == { AllHandlers }

SystemMessages == { <<>>, <<"sys">> }

userMessage == <<"usr">>

----------------------------------------------------------------------------
\* The actions.

Init ==
    /\ rev \in Revisions
    /\ plugin = "part_003"
    /\ response \in PlainResponses
    /\ handlers \in HandlerSets
    /\ throwing = {}
    /\ debug = DebugUndefined
    /\ systemMessage \in SystemMessages
    /\ input \in Inputs
    /\ pos = 0
    /\ pc = "preparing"
    /\ resolved = "pending"
    /\ pending = <<>>
    /\ buffer = <<>>
    /\ fullResponse = <<>>
    /\ out = <<>>
    /\ outState = "none"
    /\ outError = ""
    /\ readerLocked = FALSE
    /\ reads = <<>>
    /\ other = Absent
    /\ trace = <<>>

\* A failed preparation starting over.
CommitRetrying(s) ==
    /\ fullResponse' = s.fullResponse
    /\ out' = s.out
    /\ outState' = s.outState
    /\ outError' = s.outError
    /\ reads' = s.reads
    /\ trace' = s.trace
    /\ pc' = IF s.thrown # "" THEN "unhandled"
             ELSE IF s.term = "none" THEN "streaming"
             ELSE IF s.outState = "closed" /\ s.term = "errored" THEN "preparing"
             ELSE s.term

\* The engine's record becomes the state at the next await or return; an
\* exception still in flight has left start().
Commit(s) ==
    /\ fullResponse' = s.fullResponse
    /\ out' = s.out
    /\ outState' = s.outState
    /\ outError' = s.outError
    /\ reads' = s.reads
    /\ trace' = s.trace
    /\ pc' = IF s.thrown # "" THEN "unhandled"
             ELSE IF s.term = "none" THEN "streaming" ELSE s.term

\* The prepare failure answered with an errored stream instead of a closed one.
PrepareFailedErrored(s) ==
    LET s1 == Throw(s, "prepare")
        s2 == CallHandler([s1 EXCEPT !.thrown = ""], "onError", "assistant", <<>>, s1.thrown)
    IN  [ControllerError([s2 EXCEPT !.outState = "readable"], s1.thrown)
            EXCEPT !.term = "errored"]

\* plugin.prepareRequest rejects: onError with an empty partial, and an
\* already closed stream is returned.
PrepareFailed(s) ==
    LET s1 == Throw(ConsoleDebug(s, "plugin", "Starting SSE stream"), "prepare")
        s2 == CallHandler([s1 EXCEPT !.thrown = ""], "onError", "assistant", <<>>, s1.thrown)
        s3 == ConsoleDebug(s2, "plugin", "Plugin threw an error before streaming")
    IN  [ControllerClose([s3 EXCEPT !.outState = "readable"]) EXCEPT !.term = "errored"]

PrepareFails ==
    /\ pc = "preparing"
    /\ prepareRequest(plugin, response) = "throws"
    /\ \E s \in {PrepareFailed(Engine)} : Commit(s)
    /\ resolved' = "fulfilled"
    /\ UNCHANGED <<other, rev, plugin, response, handlers, throwing, debug, systemMessage, input, pos, pending, buffer, readerLocked>>

\* The echo without the test that a system message was supplied.
EchoAlways(s, sysMsg) ==
    CallHandler(CallHandler(s, "onSystemMessage", "system", sysMsg, ""),
                "onUserMessage", "user", userMessage, "")

\* plugin.prepareRequest resolves: the system and user messages are echoed.
Echo(s, sysMsg) ==
    LET s1 == IF sysMsg # <<>>
              THEN CallHandler(s, "onSystemMessage", "system", sysMsg, "")
              ELSE s
    IN  CallHandler(s1, "onUserMessage", "user", userMessage, "")

\* The diagnostics around a prepareRequest that resolves.
Prepared(s) ==
    ConsoleDebug(ConsoleDebug(s, "plugin", "Starting SSE stream"),
                 "plugin", "Request prepared successfully")

PrepareSucceeds ==
    /\ pc = "preparing"
    /\ prepareRequest(plugin, response) = "reader"
    /\ trace' = Echo(Prepared(Engine), systemMessage).trace
    /\ pc' = "prepared"
    /\ UNCHANGED <<other, rev, plugin, response, handlers, throwing, debug, systemMessage, input, pos, resolved, pending, buffer, fullResponse,
                   out, outState, outError, readerLocked, reads>>

\* `await reader.read()`: the loop issues a read and waits for it.
IssueRead(s) ==
    IF s.term = "none" /\ s.thrown = "" THEN [s EXCEPT !.reads = Append(@, Len(s.trace))] ELSE s

\* The read awaited settles.
ResolveRead(s) == [s EXCEPT !.reads = Tail(@)]

\* start() up to its first await.
Started(s) == IssueRead(ConsoleDebug(s, "sse", "Beginning to read"))

\* The reader is taken, the outbound stream is constructed, its start() runs
\* up to the first `await reader.read()`, and the promise resolves.
Start ==
    /\ pc = "prepared"
    /\ readerLocked' = TRUE
    /\ outState' = "readable"
    /\ pc' = "streaming"
    /\ resolved' = "fulfilled"
    /\ trace' = Started(Engine).trace
    /\ reads' = Started(Engine).reads
    /\ UNCHANGED <<other, rev, plugin, response, handlers, throwing, debug, systemMessage, input, pos, pending, buffer, fullResponse, out,
                   outError>>

\* A `finally` that releases the reader when the run ends.
ReaderReleasedAtEnd(locked, s) == locked /\ s.term = "none" /\ s.thrown = ""

\* The lock on the upstream reader after a step of start(): no path calls
\* reader.cancel() or reader.releaseLock(), whatever the step's outcome.
ReaderLockedAfter(locked, s) == locked

\* The next read issued as soon as a chunk arrives, before its frames are
\* processed.
ChunkReadPrefetching(s, pend, buf, chunk) ==
    LET decoded == Decode(pend, chunk)
        pieces  == SplitEvents(s, buf \o decoded.text)
    IN  [s       |-> Catch(ProcessEvents(ConsoleDebug(IssueRead(ResolveRead(s)), "sse", "Received chunk"),
                                         Events(pieces))),
         pending |-> decoded.pending,
         buffer  |-> NewBuffer(pieces)]

\* A read resolves with the next n bytes; after its frames the loop reads
\* again.
ChunkRead(s, pend, buf, chunk) ==
    LET decoded == Decode(pend, chunk)
        pieces  == SplitEvents(s, buf \o decoded.text)
    IN  [s       |-> IssueRead(Catch(ProcessEvents(ConsoleDebug(ResolveRead(s), "sse", "Received chunk"),
                                                   Events(pieces)))),
         pending |-> decoded.pending,
         buffer  |-> NewBuffer(pieces)]

ReadChunk ==
    /\ pc = "streaming"
    /\ \E n \in 1..(Len(input) - pos) :
          \E r \in {ChunkRead(Engine, pending, buffer, SubSeq(input, pos + 1, pos + n))} :
              /\ Commit(r.s)
              /\ pending' = r.pending
              /\ buffer' = r.buffer
              /\ pos' = pos + n
              /\ readerLocked' = ReaderLockedAfter(readerLocked, r.s)
    /\ UNCHANGED <<other, rev, plugin, response, handlers, throwing, debug, systemMessage, input, resolved>>

\* A read resolves with done: the residual buffer, then completion.
EndOfInput(s, buf) ==
    Catch(ProcessLeftover(ConsoleDebug(ResolveRead(s), "sse", "Reader returned done"), buf))

ReadDone ==
    /\ pc = "streaming"
    /\ pos = Len(input)
    /\ \E s \in {EndOfInput(Engine, buffer)} :
          /\ Commit(s)
          /\ readerLocked' = ReaderLockedAfter(readerLocked, s)
    /\ UNCHANGED <<other, rev, plugin, response, handlers, throwing, debug, systemMessage, input, pos, resolved, pending, buffer>>

\* A read rejects.
ReadFailed(s) == Catch(Throw(ResolveRead(s), "read"))

ReadFails ==
    /\ pc = "streaming"
    /\ \E s \in {ReadFailed(Engine)} :
          /\ Commit(s)
          /\ readerLocked' = ReaderLockedAfter(readerLocked, s)
    /\ UNCHANGED <<other, rev, plugin, response, handlers, throwing, debug, systemMessage, input, pos, resolved, pending, buffer>>

Next == PrepareFails \/ PrepareSucceeds \/ Start \/ ReadChunk \/ ReadDone \/ ReadFails

Spec == Init /\ [][Next]_vars

\* The steps that are bound to happen: the plugin's promise settles, the
\* continuation of an await runs, the upstream delivers what it has and then
\* signals end-of-input.  A read may fail, but need not.
Progress == PrepareFails \/ PrepareSucceeds \/ Start \/ ReadChunk \/ ReadDone

\* Progress is enabled: before the preparation has settled, before start()
\* has run, and while a read is awaited (ReadChunk while bytes are left,
\* ReadDone after the last).
ProgressEnabled == pc \in {"preparing", "prepared", "streaming"}

\* Weak fairness of Progress, with its enabling condition written out.
Fairness == []<>(~ProgressEnabled) \/ []<><<Progress>>_vars

\* The consumer cancels the outbound stream it was given: the stream closes
\* and its queue is dropped.  The underlying source has no cancel(), so the
\* engine is not told.
Cancel ==
    /\ resolved = "fulfilled"
    /\ outState = "readable"
    /\ outState' = "closed"
    /\ out' = <<>>
    /\ trace' = Append(trace, Event("cancel", "", <<>>, ""))
    /\ UNCHANGED <<other, rev, plugin, response, handlers, throwing, debug, systemMessage, input, pos, pc, resolved, pending, buffer,
                   fullResponse, outError, readerLocked, reads>>

NextCancel == Next \/ Cancel

SpecCancel == Init /\ [][NextCancel]_vars

\* The runs in which any of the handlers may be missing: every subset of the
\* handlers, over the inputs of up to MaxHandlerFrames frames.
HandlerFrames ==
    { <<"data:", "SP", "x">>,
      <<"data:", "SP", "{err}">>,
      <<"data:", "x", "LF", "data:", "[DONE]">> }

HandlerBodies == UNION { [1..k -> HandlerFrames] : k \in 0..MaxHandlerFrames }

HandlerInputs ==
    UNION { { Encode(Join(b)),
              Encode(Unterminated(Join(b))),
              Encode(Join(b) \o <<"data:", "[DONE]">> \o delimiter) } : b \in HandlerBodies }

InitHandlers ==
    /\ rev \in Revisions
    /\ plugin = "part_003"
    /\ response \in PlainResponses
    /\ handlers \in SUBSET AllHandlers
    /\ throwing = {}
    /\ debug = DebugUndefined
    /\ systemMessage \in SystemMessages
    /\ input \in HandlerInputs
    /\ pos = 0
    /\ pc = "preparing"
    /\ resolved = "pending"
    /\ pending = <<>>
    /\ buffer = <<>>
    /\ fullResponse = <<>>
    /\ out = <<>>
    /\ outState = "none"
    /\ outError = ""
    /\ readerLocked = FALSE
    /\ reads = <<>>
    /\ other = Absent
    /\ trace = <<>>

SpecHandlers == InitHandlers /\ [][Next]_vars

\* The runs whose end is awaited: up to MaxFairFrames frames that are a
\* text, an error payload or a text with the sentinel.
FairBodies == UNION { [1..k -> HandlerFrames] : k \in 0..MaxFairFrames }

FairInputs ==
    UNION { { Encode(Join(b)), Encode(Unterminated(Join(b))) } : b \in FairBodies }

InitFair ==
    /\ rev \in Revisions
    /\ plugin = "part_003"
    /\ response \in PlainResponses
    /\ handlers \in HandlerSets
    /\ throwing = {}
    /\ debug = DebugUndefined
    /\ systemMessage = <<>>
    /\ input \in FairInputs
    /\ pos = 0
    /\ pc = "preparing"
    /\ resolved = "pending"
    /\ pending = <<>>
    /\ buffer = <<>>
    /\ fullResponse = <<>>
    /\ out = <<>>
    /\ outState = "none"
    /\ outError = ""
    /\ readerLocked = FALSE
    /\ reads = <<>>
    /\ other = Absent
    /\ trace = <<>>

SpecFair == InitFair /\ [][Next]_vars /\ Fairness

\* The runs in which onPartial or onDone throws: up to MaxThrowingFrames
\* frames that are a text or a text with the sentinel, with and without a
\* residual buffer.
ThrowingHandlers == {"onPartial", "onDone"}

ThrowingFrames ==
    { <<"data:", "SP", "x">>,
      <<"data:", "e'", "LF", "data:", "[DONE]">> }

ThrowingBodies == UNION { [1..k -> ThrowingFrames] : k \in 0..MaxThrowingFrames }

ThrowingInputs ==
    UNION { { Encode(Join(b)), Encode(Unterminated(Join(b))) } : b \in ThrowingBodies }

InitThrowing ==
    /\ rev \in Revisions
    /\ plugin = "part_003"
    /\ response \in PlainResponses
    /\ handlers \in HandlerSets
    /\ throwing \in SUBSET ThrowingHandlers
    /\ debug = DebugUndefined
    /\ systemMessage = <<>>
    /\ input \in ThrowingInputs
    /\ pos = 0
    /\ pc = "preparing"
    /\ resolved = "pending"
    /\ pending = <<>>
    /\ buffer = <<>>
    /\ fullResponse = <<>>
    /\ out = <<>>
    /\ outState = "none"
    /\ outError = ""
    /\ readerLocked = FALSE
    /\ reads = <<>>
    /\ other = Absent
    /\ trace = <<>>

SpecThrowing == InitThrowing /\ [][Next]_vars

\* The runs with a debug configuration: every configuration, in the
\* revision with the categorized gate and in the boolean-debug revision
\* part_000, over the inputs of up to MaxDebugFrames frames.
DebugRevisions == {"streaming-engine.ts", "part_000"}

DebugFrames ==
    { <<"data:", "SP", "x">>,
      <<"data:", "x", "LF", "data:", "[DONE]">> }

DebugBodies == UNION { [1..k -> DebugFrames] : k \in 0..MaxDebugFrames }

DebugInputs ==
    UNION { { Encode(Join(b)),
              Encode(Unterminated(Join(b))),
              Encode(Join(b) \o <<"data:", "[DONE]">> \o delimiter) } : b \in DebugBodies }

InitDebug ==
    /\ rev \in DebugRevisions
    /\ plugin = "part_003"
    /\ response \in PlainResponses
    /\ handlers \in HandlerSets
    /\ throwing = {}
    /\ debug \in DebugConfigs
    /\ systemMessage = <<"sys">>
    /\ input \in DebugInputs
    /\ pos = 0
    /\ pc = "preparing"
    /\ resolved = "pending"
    /\ pending = <<>>
    /\ buffer = <<>>
    /\ fullResponse = <<>>
    /\ out = <<>>
    /\ outState = "none"
    /\ outError = ""
    /\ readerLocked = FALSE
    /\ reads = <<>>
    /\ other = Absent
    /\ trace = <<>>

SpecDebug == InitDebug /\ [][Next]_vars

\* The runs of the three plugins, with every outcome of the fetch.  The
\* OpenRouter plugins are given frames separated by a blank line, Ollama is
\* given lines: well-formed objects, null, malformed JSON, and an object
\* behind a data: prefix, which is not JSON either.
OllamaLines ==
    { <<"{resp}">>, <<"{resp0}">>, <<"{done}">>, <<"{resp,done}">>, <<"{msg}">>,
      <<"null">>, <<"{bad">>, <<"data:", "SP", "{resp}">>, <<"SP", "{resp}", "SP">> }

RECURSIVE JoinLines(_)
JoinLines(lines) ==
    IF lines = <<>> THEN <<>> ELSE Head(lines) \o <<"LF">> \o JoinLines(Tail(lines))

OllamaInputs ==
    UNION { { Encode(<<"{resp}", "LF">> \o JoinLines(b)),
              Encode(SubSeq(JoinLines(b), 1, Len(JoinLines(b)) - 1)) }
            : b \in UNION { [1..k -> OllamaLines] : k \in 1..MaxPluginFrames } }

PluginBodies == UNION { [1..k -> HandlerFrames] : k \in 0..MaxPluginFrames }

OpenRouterInputs ==
    UNION { { Encode(Join(b)),
              Encode(Unterminated(Join(b))),
              Encode(Join(b) \o <<"data:", "[DONE]">> \o delimiter) } : b \in PluginBodies }

PluginInputs(p) == IF p = "ollama-plugin.ts" THEN OllamaInputs ELSE OpenRouterInputs

InitPlugins ==
    /\ rev \in Revisions
    /\ plugin \in Plugins
    /\ response \in Responses
    /\ handlers \in HandlerSets
    /\ throwing = {}
    /\ debug = DebugUndefined
    /\ systemMessage = <<"sys">>
    /\ input \in PluginInputs(plugin)
    /\ pos = 0
    /\ pc = "preparing"
    /\ resolved = "pending"
    /\ pending = <<>>
    /\ buffer = <<>>
    /\ fullResponse = <<>>
    /\ out = <<>>
    /\ outState = "none"
    /\ outError = ""
    /\ readerLocked = FALSE
    /\ reads = <<>>
    /\ other = Absent
    /\ trace = <<>>

SpecPlugins == InitPlugins /\ [][Next]_vars

\* The runs of revision part_001 on the frames its error sniffer tells
\* apart: an error object after the data: prefix and bare, an error object
\* whose message is the empty string, a malformed object, a text chunk, an
\* object that is no error.
SnifferFrames ==
    { <<"data:", "SP", "{err}">>,
      <<"{err}">>,
      <<"data:", "{err0}">>,
      <<"{bad">>,
      <<"data:", "SP", "x">>,
      <<"{msg}">> }

SnifferBodies == UNION { [1..k -> SnifferFrames] : k \in 0..MaxSnifferFrames }

SnifferInputs ==
    UNION { { Encode(Join(b)), Encode(Unterminated(Join(b))) } : b \in SnifferBodies }

InitSniffer ==
    /\ rev = "part_001"
    /\ plugin = "part_003"
    /\ response \in PlainResponses
    /\ handlers \in HandlerSets
    /\ throwing = {}
    /\ debug = DebugUndefined
    /\ systemMessage = <<>>
    /\ input \in SnifferInputs
    /\ pos = 0
    /\ pc = "preparing"
    /\ resolved = "pending"
    /\ pending = <<>>
    /\ buffer = <<>>
    /\ fullResponse = <<>>
    /\ out = <<>>
    /\ outState = "none"
    /\ outError = ""
    /\ readerLocked = FALSE
    /\ reads = <<>>
    /\ other = Absent
    /\ trace = <<>>

SpecSniffer == InitSniffer /\ [][Next]_vars

\* The runs of both revisions on frames with lines the parser answers with
\* null: between two texts, before an error object, alone in a frame; and an
\* error object after a comment line.  With the Ollama plugin every line is
\* a frame.
LineFrames ==
    { <<"data:", "SP", "x">>,
      <<"data:", "x", "LF", "{msg}", "LF", "data:", "e'">>,
      <<"{msg}", "LF", "data:", "SP", "{err}">>,
      <<":", "LF", "data:", "SP", "{err}">>,
      <<"{bad">> }

LineBodies == UNION { [1..k -> LineFrames] : k \in 0..MaxLineFrames }

LinePlugins == {"part_003", "ollama-plugin.ts"}

LineInputs(p) ==
    IF p = "ollama-plugin.ts"
    THEN UNION { { Encode(JoinLines(b)),
                   Encode(SubSeq(JoinLines(b), 1, Len(JoinLines(b)) - 1)) }
                 : b \in UNION { [1..k -> {<<"{resp}">>, <<"{msg}">>, <<"{bad">>}] : k \in 1..MaxLineFrames } }
    ELSE UNION { { Encode(Join(b)), Encode(Unterminated(Join(b))) } : b \in LineBodies }

InitLines ==
    /\ rev \in Revisions
    /\ plugin \in LinePlugins
    /\ response \in PlainResponses
    /\ handlers \in HandlerSets
    /\ throwing = {}
    /\ debug = DebugUndefined
    /\ systemMessage = <<>>
    /\ input \in LineInputs(plugin)
    /\ pos = 0
    /\ pc = "preparing"
    /\ resolved = "pending"
    /\ pending = <<>>
    /\ buffer = <<>>
    /\ fullResponse = <<>>
    /\ out = <<>>
    /\ outState = "none"
    /\ outError = ""
    /\ readerLocked = FALSE
    /\ reads = <<>>
    /\ other = Absent
    /\ trace = <<>>

SpecLines == InitLines /\ [][Next]_vars

\* Two calls with one plugin object.  Between two awaits only one call runs;
\* at an await the event loop may go on with the other call.  The locals of
\* a call live in its closure, so the call that is resumed finds them as it
\* left them.

\* The buffer declared outside the function: one for all calls.
SwitchSharingBuffer ==
    /\ other.pc # "absent"
    /\ other' = Running
    /\ response' = other.response
    /\ input' = other.input
    /\ pos' = other.pos
    /\ resolved' = other.resolved
    /\ pending' = other.pending
    /\ fullResponse' = other.fullResponse
    /\ out' = other.out
    /\ outState' = other.outState
    /\ outError' = other.outError
    /\ readerLocked' = other.readerLocked
    /\ reads' = other.reads
    /\ trace' = other.trace
    /\ pc' = other.pc
    /\ UNCHANGED <<buffer, rev, plugin, handlers, throwing, debug, systemMessage>>

Switch ==
    /\ other.pc # "absent"
    /\ other' = Running
    /\ response' = other.response
    /\ input' = other.input
    /\ pos' = other.pos
    /\ resolved' = other.resolved
    /\ pending' = other.pending
    /\ buffer' = other.buffer
    /\ fullResponse' = other.fullResponse
    /\ out' = other.out
    /\ outState' = other.outState
    /\ outError' = other.outError
    /\ readerLocked' = other.readerLocked
    /\ reads' = other.reads
    /\ trace' = other.trace
    /\ pc' = other.pc
    /\ UNCHANGED <<rev, plugin, handlers, throwing, debug, systemMessage>>

SharedFrames ==
    { <<"data:", "SP", "x">>,
      <<"data:", "e'", "LF", "data:", "[DONE]">> }

SharedBodies == UNION { [1..k -> SharedFrames] : k \in 0..MaxSharedFrames }

SharedInputs ==
    UNION { { Encode(Join(b)), Encode(Unterminated(Join(b))) } : b \in SharedBodies }

InitShared ==
    /\ rev \in Revisions
    /\ plugin = "part_003"
    /\ response = ResponseOk
    /\ handlers \in HandlerSets
    /\ throwing = {}
    /\ debug = DebugUndefined
    /\ systemMessage = <<>>
    /\ input \in SharedInputs
    /\ pos = 0
    /\ pc = "preparing"
    /\ resolved = "pending"
    /\ pending = <<>>
    /\ buffer = <<>>
    /\ fullResponse = <<>>
    /\ out = <<>>
    /\ outState = "none"
    /\ outError = ""
    /\ readerLocked = FALSE
    /\ reads = <<>>
    /\ other \in { NewInstance(resp, inp) : resp \in PlainResponses, inp \in SharedInputs }
    /\ trace = <<>>

NextShared == Next \/ Switch

SpecShared == InitShared /\ [][NextShared]_vars

\* The three revisions side by side: streaming-engine.ts, the boolean-debug
\* revision part_000 and the revision with the error sniffer part_001, with
\* no debug flag, with `true` and with an object that enables nothing, over
\* the inputs of up to MaxRevisionFrames frames that are an error payload
\* (bare message, empty message, after a first line), a text, an object that
\* is no error, or texts around the sentinel.
AllRevisions == {"streaming-engine.ts", "part_000", "part_001"}

RevisionDebugConfigs ==
    { DebugUndefined, DebugBoolean("true"), DebugObject("undefined", "false", "undefined") }

RevisionFrames ==
    { <<"data:", "SP", "{err}">>,
      <<"data:", "{err0}">>,
      <<"{msg}", "LF", "data:", "SP", "{err}">>,
      <<"{msg}">>,
      <<"data:", "SP", "x">>,
      <<"data:", "e'", "LF", "data:", "[DONE]", "LF", "data:", "x">> }

RevisionBodies == UNION { [1..k -> RevisionFrames] : k \in 0..MaxRevisionFrames }

RevisionInputs ==
    UNION { { Encode(Join(b)), Encode(Unterminated(Join(b))) } : b \in RevisionBodies }

InitRevisions ==
    /\ rev \in AllRevisions
    /\ plugin = "part_003"
    /\ response \in PlainResponses
    /\ handlers \in HandlerSets
    /\ throwing = {}
    /\ debug \in RevisionDebugConfigs
    /\ systemMessage = <<"sys">>
    /\ input \in RevisionInputs
    /\ pos = 0
    /\ pc = "preparing"
    /\ resolved = "pending"
    /\ pending = <<>>
    /\ buffer = <<>>
    /\ fullResponse = <<>>
    /\ out = <<>>
    /\ outState = "none"
    /\ outError = ""
    /\ readerLocked = FALSE
    /\ reads = <<>>
    /\ other = Absent
    /\ trace = <<>>

SpecRevisions == InitRevisions /\ [][Next]_vars

\* The runs of revision part_001 on frames of several lines: an error
\* object after a comment line, after a line that is another object, before
\* a comment line, after a data: line that is empty; and a text.
MultiLineFrames ==
    { <<":", "LF", "data:", "SP", "{err}">>,
      <<"{msg}", "LF", "data:", "SP", "{err}">>,
      <<"data:", "SP", "{err}", "LF", ":">>,
      <<"data:", "LF", "{err}">>,
      <<"data:", "SP", "x">> }

MultiLineBodies == UNION { [1..k -> MultiLineFrames] : k \in 0..MaxMultiLineFrames }

MultiLineInputs ==
    UNION { { Encode(Join(b)), Encode(Unterminated(Join(b))) } : b \in MultiLineBodies }

InitMultiLine ==
    /\ rev = "part_001"
    /\ plugin = "part_003"
    /\ response \in PlainResponses
    /\ handlers \in HandlerSets
    /\ throwing = {}
    /\ debug = DebugUndefined
    /\ systemMessage = <<>>
    /\ input \in MultiLineInputs
    /\ pos = 0
    /\ pc = "preparing"
    /\ resolved = "pending"
    /\ pending = <<>>
    /\ buffer = <<>>
    /\ fullResponse = <<>>
    /\ out = <<>>
    /\ outState = "none"
    /\ outError = ""
    /\ readerLocked = FALSE
    /\ reads = <<>>
    /\ other = Absent
    /\ trace = <<>>

SpecMultiLine == InitMultiLine /\ [][Next]_vars

----------------------------------------------------------------------------
\* Reading the trace.

IsHandlerCall(e) == e.ev \in AllHandlers
IsTerminalCall(e) == e.ev \in {"onDone", "onError"}
IsPartialCall(e) == e.ev = "onPartial"
IsStreamCall(e) == e.ev \in {"onPartial", "onDone", "onError"}

\* The calls of the handlers, in order.
HandlerCalls(tr) == SelectSeq(tr, IsHandlerCall)

\* The calls of onPartial, onDone and onError, in order.
StreamCalls(tr) == SelectSeq(tr, IsStreamCall)

\* The concatenation of the contents onPartial was given, in call order.
RECURSIVE PartialText(_)
PartialText(tr) ==
    IF tr = <<>> THEN <<>>
    ELSE (IF Head(tr).ev = "onPartial" THEN Head(tr).content ELSE <<>>) \o PartialText(Tail(tr))

Before(i) == SubSeq(trace, 1, i - 1)
After(i) == SubSeq(trace, i + 1, Len(trace))

IsPrefix(a, b) == Len(a) <= Len(b) /\ SubSeq(b, 1, Len(a)) = a

\* prepareRequest failed in this run.
PrepareHasFailed ==
    \E i \in 1..Len(trace) : trace[i].ev = "throw" /\ trace[i].err = "prepare"

\* The run has ended.
Terminated == pc \in {"completed", "errored"}

----------------------------------------------------------------------------
\* C1: with the plugin and the upstream behaving in any of the ways explored
\* (prepareRequest fails; end-of-input; a read fails; a line parses to the
\* sentinel; a frame is an in-band error payload), and all handlers supplied,
\* at most one of onDone and onError is ever invoked, at most once, and a run
\* has ended exactly when one of them has been invoked.
C1_ExactlyOneTerminalCallback ==
    LET n == Len(SelectSeq(trace, IsTerminalCall))
    IN  /\ n <= 1
        /\ Terminated <=> n = 1
        /\ pc # "unhandled"

\* A run ended by the sentinel before the end of the input, after a partial.
C1_Witness ==
    /\ pc = "completed"
    /\ pos < Len(input)
    /\ fullResponse # <<>>
    /\ Len(SelectSeq(trace, IsTerminalCall)) = 1

----------------------------------------------------------------------------
\* C2: whenever onDone is invoked because a line parsed to the sentinel, its
\* content is the concatenation, in call order, of the contents of the
\* onPartial calls made before it -- whatever the chunking was.

\* trace[i] is an onDone call made for the sentinel: the parser call just
\* before it returned "[DONE]".
IsSentinelDone(i) ==
    /\ trace[i].ev = "onDone"
    /\ i > 1
    /\ trace[i - 1].ev = "parse"
    /\ PluginParse(plugin, trace[i - 1].content).done

C2_DoneIsConcatenationOfPartials ==
    \A i \in 1..Len(trace) :
        IsSentinelDone(i) => trace[i].content = PartialText(Before(i))

\* The sentinel after two partials with different contents.
C2_Witness ==
    \E i \in 1..Len(trace) :
        /\ IsSentinelDone(i)
        /\ trace[i].content = <<"x", "x", "e'">>
        /\ Len(SelectSeq(Before(i), IsPartialCall)) = 2

----------------------------------------------------------------------------
\* C3: chunk-boundary invariance.  However the input is cut into chunks, a
\* run without a read failure makes the onPartial, onDone and onError calls
\* that the delivery of the whole input as one chunk makes: all of them once
\* it has ended, a prefix of them while it is streaming.

\* The engine at the first read of start().
FreshEngine ==
    [rev |-> rev, plugin |-> plugin, handlers |-> handlers, throwing |-> throwing, debug |-> debug, fullResponse |-> <<>>, out |-> <<>>, outState |-> "readable", outError |-> "",
     reads |-> <<0>>, trace |-> <<>>, thrown |-> "", term |-> "none"]

\* The whole input read as one chunk, then end-of-input.
OneChunkRun ==
    LET r == ChunkRead(FreshEngine, <<>>, <<>>, input)
    IN  IF r.s.term # "none" THEN r.s ELSE EndOfInput(r.s, r.buffer)

NoReadFailure == \A i \in 1..Len(trace) : ~(trace[i].ev = "throw" /\ trace[i].err = "read")

C3_ChunkBoundaryInvariance ==
    (pc \in {"streaming", "completed", "errored"} /\ NoReadFailure /\ ~PrepareHasFailed)
        => /\ IsPrefix(StreamCalls(trace), StreamCalls(OneChunkRun.trace))
           /\ Terminated => StreamCalls(trace) = StreamCalls(OneChunkRun.trace)

\* A chunk has ended inside the two-byte character of the second frame, the
\* first frame's partial already emitted.
C3_Witness ==
    /\ pc = "streaming"
    /\ pending = <<"C3">>
    /\ Len(SelectSeq(trace, IsPartialCall)) = 1

----------------------------------------------------------------------------
\* C4: when prepareRequest fails, onError is invoked once with that error
\* and the message {assistant, ""}; no other handler is invoked; the upstream
\* is never read; the promise resolves to a stream that is closed, not
\* errored, and empty.
C4_PrepareFailure ==
    PrepareHasFailed =>
        /\ HandlerCalls(trace) = <<Event("onError", "assistant", <<>>, "prepare")>>
        /\ trace[Len(trace)].ev = "close"
        /\ pos = 0
        /\ ~readerLocked
        /\ resolved = "fulfilled"
        /\ outState = "closed"
        /\ out = <<>>
        /\ pc = "errored"

C4_Witness == PrepareHasFailed /\ pc = "errored" /\ input # <<>> /\ systemMessage # <<>>

----------------------------------------------------------------------------
\* C5: when prepareRequest succeeds, onSystemMessage (if and only if a system
\* message was supplied) and then onUserMessage are invoked, once each, with
\* the roles system and user and the texts supplied, before the reader is
\* taken and read and before any other call -- also when the consumer
\* cancels the stream at once.
EchoExpected ==
    (IF systemMessage # <<>>
     THEN <<Event("onSystemMessage", "system", systemMessage, "")>> ELSE <<>>)
    \o <<Event("onUserMessage", "user", userMessage, "")>>

IsEchoCall(e) == e.ev \in {"onSystemMessage", "onUserMessage"}

C5_EchoBeforeStreaming ==
    (pc # "preparing" /\ ~PrepareHasFailed) =>
        /\ IsPrefix(EchoExpected, trace)
        /\ SelectSeq(trace, IsEchoCall) = EchoExpected
        /\ pc = "prepared" => (trace = EchoExpected /\ ~readerLocked /\ pos = 0)

\* The consumer has cancelled before any read resolved.
C5_Witness ==
    /\ systemMessage # <<>>
    /\ input # <<>>
    /\ pos = 0
    /\ trace = EchoExpected \o <<Event("cancel", "", <<>>, "")>>

----------------------------------------------------------------------------
\* C6 (revision part_001): a frame that is, after an optional data: prefix,
\* the JSON object {"error":{"message":"X"}} makes the engine invoke onError
\* with an error of message X and put the outbound stream in the error state
\* with it, and nothing else happens afterwards: no onPartial, no onDone, no
\* parser call, for that frame or a later one.
IsErrorPayload(text) == StripDataPrefix(text) = <<"{err}">>

IsErrorFrame(i) == trace[i].ev = "frame" /\ IsErrorPayload(trace[i].content)

C6_ErrorPayloadAborts ==
    rev = "part_001" =>
        \A i \in 1..Len(trace) :
            IsErrorFrame(i) =>
                /\ Len(trace) = i + 2
                /\ trace[i + 1].ev = "onError"
                /\ trace[i + 1].err = "X"
                /\ trace[i + 2] = Event("error", "", <<>>, "X")
                /\ outState = "errored"
                /\ outError = "X"
                /\ pc = "errored"

\* An error payload taken after a partial, with input left unread.
C6_Witness ==
    /\ rev = "part_001"
    /\ fullResponse # <<>>
    /\ pos < Len(input)
    /\ \E i \in 1..Len(trace) : IsErrorFrame(i)

----------------------------------------------------------------------------
\* C7: once the consumer has cancelled the outbound stream, the engine has
\* released the upstream reader and invokes no handler any more.
C7_CancelStopsEngine ==
    \A i \in 1..Len(trace) :
        trace[i].ev = "cancel" =>
            /\ ~readerLocked
            /\ \A j \in (i + 1)..Len(trace) : ~IsHandlerCall(trace[j])

----------------------------------------------------------------------------
\* C8: the promise of createSSEStream does not reject and no exception
\* leaves the read loop: every failure (of prepareRequest, of a read, of
\* processing a frame) is followed by an onError call with that error or by
\* the outbound stream erroring with it.
C8_FailuresAreConverted ==
    /\ resolved # "rejected"
    /\ pc # "unhandled"
    /\ \A i \in 1..Len(trace) :
          trace[i].ev = "throw" =>
              \E j \in (i + 1)..Len(trace) :
                  /\ trace[j].ev \in {"onError", "error"}
                  /\ trace[j].err = trace[i].err

\* The write of a frame's text failed because the stream was cancelled.
C8_Witness ==
    \E i \in 1..Len(trace) :
        /\ trace[i].ev = "throw"
        /\ trace[i].err = "TypeError"
        /\ i < Len(trace)
        /\ trace[Len(trace)] = Event("onError", "assistant", fullResponse, "TypeError")

----------------------------------------------------------------------------
\* C9: when a read fails, the outbound stream errors with that error, then
\* onError is invoked, once, with that error and the aggregate accumulated
\* up to the failure; nothing follows, in particular no onDone.
IsReadFailure(i) == trace[i].ev = "throw" /\ trace[i].err = "read"

IsErrorCall(e) == e.ev = "onError"

C9_ReadFailure ==
    \A i \in 1..Len(trace) :
        IsReadFailure(i) =>
            /\ Len(trace) = i + 2
            /\ trace[i + 1] = Event("error", "", <<>>, "read")
            /\ trace[i + 2] = Event("onError", "assistant", fullResponse, "read")
            /\ fullResponse = PartialText(Before(i))
            /\ Len(SelectSeq(trace, IsErrorCall)) = 1
            /\ Len(SelectSeq(trace, IsTerminalCall)) = 1
            /\ outState = "errored"
            /\ outError = "read"
            /\ pc = "errored"

\* A read failed after two partials.
C9_Witness ==
    /\ \E i \in 1..Len(trace) : IsReadFailure(i)
    /\ Len(SelectSeq(trace, IsPartialCall)) = 2
    /\ pos < Len(input)

----------------------------------------------------------------------------
\* C10 (revision part_001): the onError call made for an in-band error
\* payload carries the aggregate: the concatenation of the contents of the
\* onPartial calls made before that frame.
C10_ErrorPayloadCarriesAggregate ==
    rev = "part_001" =>
        \A i \in 1..(Len(trace) - 1) :
            (IsErrorFrame(i) /\ trace[i + 1].ev = "onError")
                => trace[i + 1].content = PartialText(Before(i))

----------------------------------------------------------------------------
\* C11: when the reader signals end-of-input and no line has parsed to the
\* sentinel, the engine processes the residual buffer (its text, if any, is
\* appended, written and reported by onPartial), then invokes onDone, once,
\* with the full aggregate -- the concatenation of all onPartial contents,
\* the residual buffer's included -- and closes the outbound stream.

\* The text the lines of a frame carry.
RECURSIVE LinesText(_)
LinesText(lines) ==
    IF lines = <<>> THEN <<>>
    ELSE PluginParse(plugin, Head(lines)).text \o LinesText(Tail(lines))

ResidualText(buf) == LinesText(MapTrim(Split(Trim(buf), <<"LF">>)))

\* The run completed, and not because of the sentinel.
CompletedAtEndOfInput ==
    pc = "completed" /\ ~\E i \in 1..Len(trace) : IsSentinelDone(i)

C11_EndOfInputCompletes ==
    CompletedAtEndOfInput =>
        LET n    == Len(trace)
            text == ResidualText(buffer)
        IN  /\ pos = Len(input)
            /\ n >= 2
            /\ trace[n] = Event("close", "", <<>>, "")
            /\ trace[n - 1] = Event("onDone", "assistant", fullResponse, "")
            /\ fullResponse = PartialText(trace)
            /\ Len(SelectSeq(trace, IsTerminalCall)) = 1
            /\ outState = "closed"
            /\ text # <<>> =>
                  /\ n >= 4
                  /\ trace[n - 2] = Event("onPartial", "assistant", text, "")
                  /\ trace[n - 3] = Event("enqueue", "", Encode(text), "")

\* End-of-input with a residual buffer that carries text, after a partial.
C11_Witness ==
    /\ CompletedAtEndOfInput
    /\ ResidualText(buffer) # <<>>
    /\ Len(SelectSeq(trace, IsPartialCall)) = 2

----------------------------------------------------------------------------
\* C12: a frame of the read loop that, once trimmed, consists only of blank
\* lines and of lines beginning with ':' causes no call of the plugin's line
\* parser, no write to the outbound stream and no onPartial call, and leaves
\* fullResponse as it was (the concatenation of the onPartial contents).
RECURSIVE AllBlankOrComment(_)
AllBlankOrComment(lines) ==
    \/ lines = <<>>
    \/ /\ (Head(lines) = <<>> \/ StartsWith(Head(lines), <<":">>))
       /\ AllBlankOrComment(Tail(lines))

IsCommentOnly(text) == AllBlankOrComment(MapTrim(Split(text, <<"LF">>)))

IsCommentOnlyLoopFrame(i) ==
    /\ trace[i].ev = "frame"
    /\ trace[i].role = "loop"
    /\ IsCommentOnly(trace[i].content)

C12_CommentFrameIsSilent ==
    /\ fullResponse = PartialText(trace)
    /\ \A i \in 1..Len(trace) :
          IsCommentOnlyLoopFrame(i) =>
              /\ i < Len(trace) => trace[i + 1].ev \notin {"parse", "enqueue", "onPartial"}
              /\ i = Len(trace) => fullResponse = PartialText(Before(i))

\* A frame of two comments and a blank line, taken after a text and before
\* another frame.
C12_Witness ==
    \E i \in 2..(Len(trace) - 1) :
        /\ IsCommentOnlyLoopFrame(i)
        /\ Len(Split(trace[i].content, <<"LF">>)) = 3
        /\ trace[i - 1].ev = "onPartial"
        /\ trace[i + 1].ev = "frame"
        /\ fullResponse = <<"x", "e'">>

----------------------------------------------------------------------------
\* C13: every handler is optional.  Whatever subset of the handlers is
\* supplied, no step of the engine raises an error for a missing handler,
\* and every step does what it does when all handlers are supplied -- the
\* same aggregate, outbound chunks, stream state and error, the same parser
\* and controller calls, the same outcome -- the calls of the handlers that
\* are missing left out.  Holding for every step from every reachable
\* state, it holds for whole runs.
WithAllHandlers(s) == [s EXCEPT !.handlers = AllHandlers]

IsSupplied(e) == ~IsHandlerCall(e) \/ e.ev \in handlers

\* a is what b is, the calls of the missing handlers left out.
SameButMissingCalls(a, b) ==
    /\ a.fullResponse = b.fullResponse
    /\ a.out = b.out
    /\ a.outState = b.outState
    /\ a.outError = b.outError
    /\ a.thrown = b.thrown
    /\ a.term = b.term
    /\ a.trace = SelectSeq(b.trace, IsSupplied)

C13_HandlersAreOptional ==
    /\ pc # "unhandled"
    /\ \A i \in 1..Len(trace) : trace[i].ev = "throw" => trace[i].err \in {"prepare", "read"}
    /\ pc = "preparing" =>
          /\ SameButMissingCalls(PrepareFailed(Engine), PrepareFailed(WithAllHandlers(Engine)))
          /\ SameButMissingCalls(Echo(Engine, systemMessage),
                                 Echo(WithAllHandlers(Engine), systemMessage))
    /\ pc = "streaming" =>
          /\ \A n \in 1..(Len(input) - pos) :
                LET chunk == SubSeq(input, pos + 1, pos + n)
                IN  SameButMissingCalls(ChunkRead(Engine, pending, buffer, chunk).s,
                                        ChunkRead(WithAllHandlers(Engine), pending, buffer, chunk).s)
          /\ SameButMissingCalls(EndOfInput(Engine, buffer),
                                 EndOfInput(WithAllHandlers(Engine), buffer))
          /\ SameButMissingCalls(ReadFailed(Engine), ReadFailed(WithAllHandlers(Engine)))

\* A run without onPartial and onDone has written a text and completed.
C13_Witness ==
    /\ handlers = {"onSystemMessage", "onError"}
    /\ pc = "completed"
    /\ out # <<>>
    /\ trace[Len(trace)].ev = "close"
    /\ HandlerCalls(trace) = <<Event("onSystemMessage", "system", systemMessage, "")>>

----------------------------------------------------------------------------
\* C14: what the engine writes to the outbound stream is the UTF-8 encoding
\* of the extracted text.  At every point the chunks written are, in order,
\* the encodings of the onPartial contents so far, one chunk per onPartial,
\* so that their concatenation is the encoding of the concatenated contents;
\* as long as the stream has not errored they are what it holds.  The stream
\* is closed once the run has completed (end-of-input or sentinel) and
\* errored once it has failed in mid-stream.
RECURSIVE EnqueuedChunks(_)
EnqueuedChunks(tr) ==
    IF tr = <<>> THEN <<>>
    ELSE (IF Head(tr).ev = "enqueue" THEN <<Head(tr).content>> ELSE <<>>)
         \o EnqueuedChunks(Tail(tr))

RECURSIVE PartialChunks(_)
PartialChunks(tr) ==
    IF tr = <<>> THEN <<>>
    ELSE (IF Head(tr).ev = "onPartial" THEN <<Encode(Head(tr).content)>> ELSE <<>>)
         \o PartialChunks(Tail(tr))

C14_OutboundIsEncodedText ==
    /\ EnqueuedChunks(trace) = PartialChunks(trace)
    /\ Flatten(EnqueuedChunks(trace)) = Encode(PartialText(trace))
    /\ \A i \in 1..Len(trace) :
          trace[i].ev = "onPartial" =>
              i > 1 /\ trace[i - 1] = Event("enqueue", "", Encode(trace[i].content), "")
    /\ outState \in {"readable", "closed"} => out = EnqueuedChunks(trace)
    /\ pc = "streaming" => outState = "readable"
    /\ pc = "completed" => outState = "closed"
    /\ (pc = "errored" /\ ~PrepareHasFailed) => outState = "errored"

\* Two chunks written, one of them holding the two bytes of a character,
\* and the stream closed.
C14_Witness ==
    /\ pc = "completed"
    /\ out = << <<"x">>, <<"x", "C3", "A9">> >>
    /\ PartialText(trace) = <<"x", "x", "e'">>

----------------------------------------------------------------------------
\* C15: isDebugEnabled(config, category) is false when config is absent or
\* false, is config when config is a boolean, and is (config.all OR
\* config[category]) when config is a record; all = true enables every
\* category whatever the category's own flag is.  The diagnostics of a run
\* (of the revisions that use the gate) are there exactly when it says so.
GateExpected(d, category) ==
    CASE d.kind = "undefined" -> FALSE
      [] d.kind = "boolean"   -> d.value = "true"
      [] d.kind = "object"    -> d.all = "true" \/ d[category] = "true"

HasDiagnostic(category) ==
    \E i \in 1..Len(trace) : trace[i].ev = "debug" /\ trace[i].role = category

C15_DebugGate ==
    /\ \A c \in Categories : isDebugEnabled(debug, c) = GateExpected(debug, c)
    /\ (debug.kind = "object" /\ debug.all = "true")
          => \A c \in Categories : isDebugEnabled(debug, c)
    /\ (rev # "part_000" /\ pc # "preparing")
          => (HasDiagnostic("plugin") <=> GateExpected(debug, "plugin"))
    /\ (rev # "part_000" /\ pc \notin {"preparing", "prepared"} /\ ~PrepareHasFailed)
          => (HasDiagnostic("sse") <=> GateExpected(debug, "sse"))

\* A run whose configuration sets all and clears sse has written the
\* diagnostics of the read loop.
C15_Witness ==
    /\ debug = DebugObject("true", "undefined", "false")
    /\ rev = "streaming-engine.ts"
    /\ pc = "completed"
    /\ HasDiagnostic("sse")

----------------------------------------------------------------------------
\* C16: the debug configuration affects neither control flow nor data.
\* Whatever the configuration, every step of the engine does what it does
\* with no configuration -- the same handler, parser and controller calls
\* with the same arguments, the same aggregate, buffer, outbound chunks,
\* stream state and outcome -- the diagnostics aside.  Holding for every
\* step from every reachable state, it holds for whole runs, and so for any
\* two runs that differ in the configuration only.
WithoutDebug(s) == [s EXCEPT !.debug = DebugUndefined]

IsNotDiagnostic(e) == e.ev # "debug"

SameButDiagnostics(a, b) ==
    /\ a.fullResponse = b.fullResponse
    /\ a.out = b.out
    /\ a.outState = b.outState
    /\ a.outError = b.outError
    /\ a.thrown = b.thrown
    /\ a.term = b.term
    /\ SelectSeq(a.trace, IsNotDiagnostic) = SelectSeq(b.trace, IsNotDiagnostic)

C16_DebugDoesNotInterfere ==
    /\ pc # "unhandled"
    /\ pc = "preparing" =>
          /\ SameButDiagnostics(PrepareFailed(Engine), PrepareFailed(WithoutDebug(Engine)))
          /\ SameButDiagnostics(Echo(Prepared(Engine), systemMessage),
                                Echo(Prepared(WithoutDebug(Engine)), systemMessage))
    /\ pc = "prepared" =>
          SameButDiagnostics(ConsoleDebug(Engine, "sse", "Beginning to read"),
                             ConsoleDebug(WithoutDebug(Engine), "sse", "Beginning to read"))
    /\ pc = "streaming" =>
          /\ \A n \in 1..(Len(input) - pos) :
                LET chunk == SubSeq(input, pos + 1, pos + n)
                    a     == ChunkRead(Engine, pending, buffer, chunk)
                    b     == ChunkRead(WithoutDebug(Engine), pending, buffer, chunk)
                IN  /\ SameButDiagnostics(a.s, b.s)
                    /\ a.pending = b.pending
                    /\ a.buffer = b.buffer
          /\ SameButDiagnostics(EndOfInput(Engine, buffer), EndOfInput(WithoutDebug(Engine), buffer))
          /\ SameButDiagnostics(ReadFailed(Engine), ReadFailed(WithoutDebug(Engine)))

\* A run of the boolean-debug revision with debug = true has written its
\* diagnostics, emitted a text and completed.
C16_Witness ==
    /\ rev = "part_000"
    /\ debug = DebugBoolean("true")
    /\ pc = "completed"
    /\ fullResponse # <<>>
    /\ HasDiagnostic("plugin")
    /\ HasDiagnostic("sse")

----------------------------------------------------------------------------
\* C17: a plugin that leaves delimiter unset is framed on the blank line:
\* every step of the engine with OpenRouterPlugin part_002, which has no
\* delimiter, does what it does with part_003, which differs in setting
\* delimiter to "\n\n" only -- the same frames, callbacks, outbound chunks
\* and residual buffer.
WithPlugin(s, p) == [s EXCEPT !.plugin = p]

C17_DefaultDelimiter ==
    /\ DelimiterOrDefault("part_002") = <<"LF", "LF">>
    /\ (plugin = "part_002" /\ pc = "streaming") =>
          /\ \A n \in 1..(Len(input) - pos) :
                LET chunk == SubSeq(input, pos + 1, pos + n)
                    a     == ChunkRead(Engine, pending, buffer, chunk)
                    b     == ChunkRead(WithPlugin(Engine, "part_003"), pending, buffer, chunk)
                IN  /\ WithPlugin(a.s, "part_003") = b.s
                    /\ a.pending = b.pending
                    /\ a.buffer = b.buffer
          /\ WithPlugin(EndOfInput(Engine, buffer), "part_003")
                = EndOfInput(WithPlugin(Engine, "part_003"), buffer)

\* With no delimiter set, a frame of two lines was kept in one piece and the
\* text of its first line discarded for the sentinel of its second.
C17_Witness ==
    /\ plugin = "part_002"
    /\ pc = "completed"
    /\ fullResponse = <<>>
    /\ \E i \in 1..Len(trace) :
          /\ trace[i].ev = "frame"
          /\ trace[i].content = <<"data:", "x", "LF", "data:", "[DONE]">>

----------------------------------------------------------------------------
\* C18: parseServerSentEvent of the plugins is total and never throws.  For
\* every line OllamaPlugin returns the sentinel when the line is a JSON
\* object whose done is truthy, the response when response is a string (the
\* empty string included), and null otherwise -- for malformed JSON, for a
\* JSON value without a response, for null; and no run of the engine, with
\* any of the plugins, sees the parser throw.

\* What the claim says of a line, by the JSON it is once trimmed.
OllamaExpected(line) ==
    LET t == Trim(line) IN
    IF t \in {<<"{done}">>, <<"{resp,done}">>} THEN ParsedDone
    ELSE IF t = <<"{resp}">> THEN ParsedText(<<"x">>)
    ELSE IF t = <<"{resp0}">> THEN ParsedText(<<>>)
    ELSE ParsedNull

\* Lines to try the parser on: the lines of the inputs, every single
\* character of the alphabet, and the empty line.
LineSamples ==
    OllamaLines \cup HandlerFrames \cup {<<>>}
        \cup { <<c>> : c \in JsonChars \cup {"{bad", "[DONE]", "data:", ":", "SP", "LF", "FFFD"} }

ParserHasThrown ==
    \E i \in 1..Len(trace) : trace[i].ev = "throw" /\ trace[i].err = "SyntaxError"

C18_ParserIsTotal ==
    /\ \A line \in LineSamples :
          /\ OllamaParseServerSentEvent(line) = OllamaExpected(line)
          /\ ~parseServerSentEvent(line).threw
    /\ ~ParserHasThrown
    /\ pc # "unhandled"
    /\ plugin = "ollama-plugin.ts" =>
          \A i \in 1..Len(trace) :
              trace[i].ev = "parse" =>
                  /\ OllamaExpected(trace[i].content).done
                        => (i < Len(trace) /\ trace[i + 1].ev = "onDone")
                  /\ (i < Len(trace) /\ trace[i + 1].ev = "enqueue")
                        => trace[i + 1].content = Encode(OllamaExpected(trace[i].content).text)

\* A run of OllamaPlugin was given malformed JSON, went on, and emitted the
\* response of the next line.
C18_Witness ==
    /\ plugin = "ollama-plugin.ts"
    /\ pc = "completed"
    /\ \E i \in 1..Len(trace) :
          /\ trace[i].ev = "parse"
          /\ trace[i].content = <<"{bad">>
          /\ \E j \in (i + 1)..Len(trace) : trace[j].ev = "onPartial"

----------------------------------------------------------------------------
\* C19: a plugin's prepareRequest fails whenever the fetch fails or its
\* response is not ok or has no body, and returns a reader only otherwise;
\* such a failure leaves the engine errored, onError invoked once with an
\* empty content and nothing else, the stream closed and empty, and nothing
\* read.
ResponseIsUsable == response.fetch = "resolves" /\ response.ok /\ response.body

C19_PrepareRequestFails ==
    /\ pc # "preparing" => (PrepareHasFailed <=> ~ResponseIsUsable)
    /\ readerLocked => ResponseIsUsable
    /\ (pc # "preparing" /\ ~ResponseIsUsable) =>
          /\ pc = "errored"
          /\ HandlerCalls(trace) = <<Event("onError", "assistant", <<>>, "prepare")>>
          /\ outState = "closed"
          /\ out = <<>>
          /\ pos = 0
          /\ ~readerLocked

\* OllamaPlugin was given a response that is ok and has no body.
C19_Witness ==
    /\ plugin = "ollama-plugin.ts"
    /\ response = [fetch |-> "resolves", ok |-> TRUE, body |-> FALSE]
    /\ pc = "errored"
    /\ input # <<>>

----------------------------------------------------------------------------
\* C20: when a line of a frame parses to the sentinel, the engine finalizes
\* at once.  The lines of the frame up to that one are parsed and none after
\* it; onDone receives fullResponse as it was before the frame; the text of
\* the earlier lines of the frame is neither appended nor written nor
\* reported by onPartial; the stream is closed and nothing else happens.

\* The lines of the frame trace[i] that the parser is to be given.
FrameLines(i) == LinesToParse(trace[i].content, trace[i].role = "loop")

\* The index of the first line that is the sentinel, 0 when there is none.
RECURSIVE DoneIndex(_, _)
DoneIndex(lines, k) ==
    IF k > Len(lines) THEN 0
    ELSE IF PluginParse(plugin, lines[k]).done THEN k
    ELSE DoneIndex(lines, k + 1)

C20_SentinelFinalizesAtOnce ==
    \A i \in 1..Len(trace) :
        (trace[i].ev = "frame" /\ DoneIndex(FrameLines(i), 1) > 0) =>
            LET k == DoneIndex(FrameLines(i), 1) IN
            /\ Len(trace) = i + k + 2
            /\ \A j \in 1..k : trace[i + j] = Event("parse", "", FrameLines(i)[j], "")
            /\ trace[i + k + 1] = Event("onDone", "assistant", PartialText(Before(i)), "")
            /\ trace[i + k + 2] = Event("close", "", <<>>, "")
            /\ fullResponse = PartialText(Before(i))
            /\ out = EnqueuedChunks(Before(i))
            /\ outState = "closed"
            /\ pc = "completed"

\* After a partial, a frame with a text, the sentinel and another text: the
\* second and the third text are lost.
C20_Witness ==
    /\ pc = "completed"
    /\ fullResponse = <<"x">>
    /\ \E i \in 1..Len(trace) :
          /\ trace[i].ev = "frame"
          /\ Len(FrameLines(i)) = 3
          /\ DoneIndex(FrameLines(i), 1) = 2

----------------------------------------------------------------------------
\* C21: once a terminal condition is reached (the sentinel, an in-band error
\* payload, a read failure, the completion at end-of-input) nothing more
\* happens: after the call of onDone or onError the trace holds only the
\* closing or erroring of the stream that belongs to it -- no frame, also of
\* the same chunk, no parser call, no write, no handler call -- and the
\* engine takes no further step, so that nothing more is read.
IsFinishing(e) == e.ev \in {"close", "error", "debug"}

C21_NothingAfterTerminal ==
    /\ \A i \in 1..Len(trace) :
          IsTerminalCall(trace[i]) => \A j \in (i + 1)..Len(trace) : IsFinishing(trace[j])
    /\ Terminated => ~ENABLED Next

\* The sentinel came in a chunk that held a later frame too: the later frame
\* was split off and never processed.
C21_Witness ==
    /\ pc = "completed"
    /\ pos = Len(input)
    /\ buffer = <<>>
    /\ Len(SplitEvents(Engine, Decode(<<>>, input).text)) = 4
    /\ Len(SelectSeq(trace, LAMBDA e : e.ev = "frame")) = 1

----------------------------------------------------------------------------
\* C22: each time the engine waits for the next chunk, buffer holds no
\* occurrence of the plugin's delimiter (the one the plugin declares, or the
\* blank line when it declares none): no complete frame is left unextracted.
AwaitingChunk == pc = "streaming"

C22_BufferHasNoDelimiter ==
    AwaitingChunk => IndexOf(buffer, DelimiterOrDefault(plugin), 1) = 0

\* A frame was split off and processed, and the kept fragment is the start
\* of the next frame, ending in the first half of a blank line.
C22_Witness ==
    /\ AwaitingChunk
    /\ Len(DelimiterOrDefault(plugin)) = 2
    /\ buffer # <<>>
    /\ buffer[Len(buffer)] = "LF"
    /\ \E i \in 1..Len(trace) : trace[i].ev = "frame"

----------------------------------------------------------------------------
\* C23: fullResponse only grows: in every step the old value is a prefix of
\* the new one, so it is never reset or truncated; and the content of every
\* onDone, and of the onError of a read failure, begins with the contents of
\* the onPartial calls made before it, in their order.
CarriesAggregate(e) ==
    e.ev = "onDone" \/ (e.ev = "onError" /\ e.err = "read")

AggregateHoldsPartials ==
    \A i \in 1..Len(trace) :
        CarriesAggregate(trace[i]) => IsPrefix(PartialText(Before(i)), trace[i].content)

C23_FullResponseOnlyGrows ==
    [][IsPrefix(fullResponse, fullResponse') /\ AggregateHoldsPartials']_vars

\* The aggregate grew twice and was then handed to onDone.
C23_Witness ==
    /\ pc = "completed"
    /\ Len(fullResponse) = 2
    /\ Len(SelectSeq(trace, IsPartialCall)) = 2
    /\ \E i \in 1..Len(trace) :
          trace[i].ev = "onDone" /\ trace[i].content = fullResponse

----------------------------------------------------------------------------
\* C24: the residual buffer is processed as a frame of the loop is: when the
\* input ends with the buffer R unterminated, the parser calls, the onPartial
\* calls, the terminal callback and the outbound chunks are those of the run
\* in which R is followed by the delimiter and the input ends then.
IsParseCall(e) == e.ev = "parse"

Observed(s) ==
    [parses   |-> SelectSeq(s.trace, IsParseCall),
     partials |-> SelectSeq(s.trace, IsPartialCall),
     terminal |-> SelectSeq(s.trace, IsTerminalCall),
     out      |-> s.out,
     outState |-> s.outState]

\* The input ends here: every byte was read and decoded.
AtEndOfInput == pc = "streaming" /\ pos = Len(input) /\ pending = <<>>

\* The run in which the delimiter arrives before the input ends.
TerminatedRun ==
    LET r == ChunkRead(Engine, <<>>, buffer, Encode(DelimiterOrDefault(plugin)))
    IN  IF r.s.term # "none" THEN r.s ELSE EndOfInput(r.s, r.buffer)

C24_LeftoverSameAsLoop ==
    AtEndOfInput => Observed(EndOfInput(Engine, buffer)) = Observed(TerminatedRun)

----------------------------------------------------------------------------
\* C25: the parser is called only with lines that are trimmed, non-empty and
\* do not begin with ':', for a frame of the loop and for the residual buffer
\* alike; and the calls made for a frame are the surviving lines of the frame
\* in their order (up to the line that parses to the sentinel).
RECURSIVE ParsedLines(_)
ParsedLines(tr) ==
    IF tr = <<>> \/ ~IsParseCall(Head(tr)) THEN <<>>
    ELSE <<Head(tr).content>> \o ParsedLines(Tail(tr))

SurvivingLines(trimmed) == SelectSeq(MapTrim(Split(trimmed, <<"LF">>)), IsSSELine)

C25_ParserGetsSSELines ==
    \A i \in 1..Len(trace) :
        /\ IsParseCall(trace[i]) =>
              /\ trace[i].content = Trim(trace[i].content)
              /\ trace[i].content # <<>>
              /\ ~StartsWith(trace[i].content, <<":">>)
        /\ trace[i].ev = "frame" =>
              IsPrefix(ParsedLines(After(i)), SurvivingLines(trace[i].content))

----------------------------------------------------------------------------
\* C26: a frame whose lines parse, without the sentinel, to a non-empty
\* text gets, after its parser calls, one write of the encoded text and then
\* one onPartial call with that text and role assistant, and the aggregate
\* grows by that text; any other frame gets no onPartial.  No frame gets more
\* than one onPartial however many lines it has, onPartial never carries an
\* empty content, and the frames are handled in the order they arrive.
IsFrame(e) == e.ev = "frame"

RECURSIVE UntilFrame(_)
UntilFrame(tr) ==
    IF tr = <<>> \/ IsFrame(Head(tr)) THEN <<>>
    ELSE <<Head(tr)>> \o UntilFrame(Tail(tr))

IsContentFrame(i) ==
    /\ IsFrame(trace[i])
    /\ ~(rev = "part_001" /\ IsErrorPayload(trace[i].content))
    /\ DoneIndex(FrameLines(i), 1) = 0
    /\ LinesText(FrameLines(i)) # <<>>

RECURSIVE FrameContents(_)
FrameContents(tr) ==
    IF tr = <<>> THEN <<>>
    ELSE (IF IsFrame(Head(tr)) THEN <<Head(tr).content>> ELSE <<>>) \o FrameContents(Tail(tr))

IsNonEmpty(text) == text # <<>>

\* The frames of the whole input, in the order they arrive.
ArrivingFrames ==
    SelectSeq(MapTrim(SplitEvents(Engine, Decode(<<>>, input).text)), IsNonEmpty)

C26_OnePartialPerContentFrame ==
    /\ \A i \in 1..Len(trace) :
          IsFrame(trace[i]) =>
              LET n        == Len(FrameLines(i))
                  text     == LinesText(FrameLines(i))
                  partials == SelectSeq(UntilFrame(After(i)), IsPartialCall)
                  writes   == EnqueuedChunks(UntilFrame(After(i)))
              IN  IF IsContentFrame(i)
                  THEN /\ Len(trace) >= i + n + 2
                       /\ trace[i + n + 1] = Event("enqueue", "", Encode(text), "")
                       /\ trace[i + n + 2] = Event("onPartial", "assistant", text, "")
                       /\ Len(partials) = 1
                       /\ Len(writes) = 1
                  ELSE partials = <<>> /\ writes = <<>>
    /\ \A i \in 1..Len(trace) :
          IsPartialCall(trace[i]) =>
              /\ trace[i].content # <<>>
              /\ trace[i].role = "assistant"
              /\ \E j \in 1..(i - 1) : IsFrame(trace[j])
    /\ fullResponse = PartialText(trace)
    /\ IsPrefix(FrameContents(trace), ArrivingFrames)

\* A frame of two content lines with a blank line between them, handled
\* after another content frame: one onPartial with the text of both lines.
C26_Witness ==
    \E i \in 1..Len(trace) :
        /\ IsContentFrame(i)
        /\ Len(FrameLines(i)) >= 2
        /\ LinesText(FrameLines(i)) = <<"x", "e'">>
        /\ \E j \in 1..(i - 1) : IsContentFrame(j)
        /\ trace[i + Len(FrameLines(i)) + 2].content = <<"x", "e'">>

----------------------------------------------------------------------------
\* C27: an instance only moves forward, from Preparing through Streaming to
\* a terminal state.  The one step taken in Preparing is the outcome of the
\* single prepareRequest call and leaves Preparing for good; Streaming is
\* entered only from the prepared state, which is entered only from
\* Preparing, hence at most once; and a terminal state is never left.
Rank(p) ==
    CASE p = "preparing" -> 0
      [] p = "prepared"  -> 1
      [] p = "streaming" -> 2
      [] OTHER           -> 3

C27_ForwardOnly ==
    [][/\ Rank(pc) <= Rank(pc')
       /\ pc = "preparing" => pc' \in {"prepared", "errored"}
       /\ pc' = "prepared" => pc = "preparing"
       /\ pc = "prepared" => pc' = "streaming"
       /\ pc' = "streaming" => pc \in {"prepared", "streaming"}
       /\ Rank(pc) < 3]_vars

\* A run that went through Preparing and Streaming and ended Errored on a
\* failed read.
C27_Witness ==
    /\ pc = "errored"
    /\ ~PrepareHasFailed
    /\ outState = "errored"
    /\ pos > 0
    /\ trace[Len(trace)].ev = "onError"

----------------------------------------------------------------------------
\* C28: at most one upstream read is outstanding.  While the instance is
\* streaming exactly one read is awaited, and it was issued after everything
\* the previous chunk caused -- its frames, parser calls, writes and handler
\* calls -- had been done; outside Streaming no read is awaited.
C28_OneReadOutstanding ==
    /\ Len(reads) <= 1
    /\ pc = "streaming" => reads = <<Len(trace)>>
    /\ pc # "streaming" => reads = <<>>

\* The read awaited was issued after a chunk that carried two content
\* frames, both handled before it.
C28_Witness ==
    /\ pc = "streaming"
    /\ pos < Len(input)
    /\ reads = <<Len(trace)>>
    /\ Len(trace) >= 2
    /\ IsPartialCall(trace[Len(trace)])
    /\ Len(SelectSeq(trace, IsPartialCall)) = 2

----------------------------------------------------------------------------
\* C29: the consumer's backpressure does not throttle the engine.  The read
\* loop starts with the construction of the outbound stream; with a consumer
\* that never reads, every content-bearing frame still adds a chunk to the
\* queue and gets its onPartial, also when the queue is at or above the
\* high-water mark, and the engine still awaits the next read; so the queue
\* holds as many chunks as content-bearing frames were handled.
ContentFrames == {i \in 1..Len(trace) : IsContentFrame(i)}

----------------------------------------------------------------------------
\* C30 (revision part_001): the sniffer takes the trimmed text of a frame
\* without a leading data: prefix.  When the rest does not begin with '{' or
\* is not JSON it reports no error and throws nothing: the frame goes on to
\* the line parser.  When the rest is an object that has an error.message
\* field, the empty string included, it reports the error: onError with
\* that message, the stream errored with it, and the run ends.
ExposesErrorMessage(text) ==
    LET rest == StripDataPrefix(text)
    IN  StartsWithBrace(rest) /\ JSONParse(rest).ok /\ JSONParse(rest).hasError

C30_SnifferReportsErrorMessage ==
    /\ pc # "unhandled"
    /\ \A i \in 1..Len(trace) :
          IsFrame(trace[i]) =>
              LET message == JSONParse(StripDataPrefix(trace[i].content)).message
              IN  IF ExposesErrorMessage(trace[i].content)
                  THEN /\ Len(trace) = i + 2
                       /\ trace[i + 1].ev = "onError"
                       /\ trace[i + 1].err = message
                       /\ trace[i + 2] = Event("error", "", <<>>, message)
                       /\ pc = "errored"
                  ELSE \/ i = Len(trace)
                       \/ /\ trace[i + 1].ev \notin {"onError", "error"}
                          /\ trace[i + 1].ev = "throw" => trace[i + 1].err = "read"

----------------------------------------------------------------------------
\* C31: a line the parser answers with null contributes no text, raises no
\* onError and leaves the stream as it is: the engine goes on with the next
\* line or frame, and what the frame causes -- handler calls, writes, the
\* aggregate, the state of the stream -- is what the frame without that line
\* causes.  The last part holds unless, in revision part_001, the frame
\* without the line is an in-band error payload: the sniffer reads the frame
\* as a whole, so the null line is what kept it from reporting the error.

\* The engine as it was when it came to the frame trace[i].
PreFrame(i) ==
    [Engine EXCEPT !.fullResponse = PartialText(Before(i)),
                   !.out = EnqueuedChunks(Before(i)),
                   !.outState = "readable",
                   !.outError = "",
                   !.trace = Before(i)]

\* A frame text processed in the loop or as the residual buffer.
ProcessFrame(s, text, inLoop) ==
    IF Trim(text) = <<>> THEN s ELSE ProcessText(s, Trim(text), inLoop)

RECURSIVE JoinWithNewlines(_)
JoinWithNewlines(lines) ==
    IF lines = <<>> THEN <<>>
    ELSE IF Len(lines) = 1 THEN lines[1]
    ELSE lines[1] \o <<"LF">> \o JoinWithNewlines(Tail(lines))

RawLines(text) == Split(text, <<"LF">>)

\* The text without its k-th line.
WithoutLine(text, k) ==
    JoinWithNewlines(SubSeq(RawLines(text), 1, k - 1)
                     \o SubSeq(RawLines(text), k + 1, Len(RawLines(text))))

\* The k-th line of the frame trace[i] is given to the parser, which
\* answers null.
IsNullLine(i, k) ==
    LET ln == Trim(RawLines(trace[i].content)[k])
    IN  /\ ~Sniff(PreFrame(i), trace[i].content).hit
        /\ IF trace[i].role = "loop" THEN IsSSELine(ln) ELSE IsLeftoverLine(ln)
        /\ PluginParse(plugin, ln).isNull

Outcome(s) ==
    [calls        |-> HandlerCalls(s.trace),
     out          |-> s.out,
     outState     |-> s.outState,
     outError     |-> s.outError,
     fullResponse |-> s.fullResponse,
     term         |-> s.term,
     thrown       |-> s.thrown]

SameWithoutLine(i, k) ==
    LET inLoop == trace[i].role = "loop"
    IN  Outcome(ProcessFrame(PreFrame(i), trace[i].content, inLoop))
          = Outcome(ProcessFrame(PreFrame(i), WithoutLine(trace[i].content, k), inLoop))

\* The parser call trace[j] was answered with null.
IsNullParse(j) == IsParseCall(trace[j]) /\ PluginParse(plugin, trace[j].content).isNull

NullParseIsSilent ==
    \A j \in 1..Len(trace) :
        IsNullParse(j) =>
            \/ j = Len(trace)
            \/ /\ trace[j + 1].ev \notin {"onError", "error"}
               /\ trace[j + 1].ev = "throw" => trace[j + 1].err = "read"

\* What the frame did is what the model of the frame does from PreFrame.
FrameIsReplayed(i) ==
    IsPrefix(ProcessFrame(PreFrame(i), trace[i].content, trace[i].role = "loop").trace, trace)

LeavesErrorPayload(i, k) ==
    Sniff(PreFrame(i), Trim(WithoutLine(trace[i].content, k))).hit

C31_NullLineIsIgnoredUnlessSniffed ==
    /\ NullParseIsSilent
    /\ \A i \in 1..Len(trace) :
          IsFrame(trace[i]) =>
              /\ FrameIsReplayed(i)
              /\ \A k \in 1..Len(RawLines(trace[i].content)) :
                    (IsNullLine(i, k) /\ ~LeavesErrorPayload(i, k)) => SameWithoutLine(i, k)

\* The claim as it was made: for every null line.
C31_NullLineIsIgnored ==
    /\ NullParseIsSilent
    /\ \A i \in 1..Len(trace) :
          IsFrame(trace[i]) =>
              \A k \in 1..Len(RawLines(trace[i].content)) :
                  IsNullLine(i, k) => SameWithoutLine(i, k)

\* A frame with a null line between two texts was handled: one partial
\* with both texts, and the run went on to its end.
C31_Witness ==
    /\ pc = "completed"
    /\ \E i \in 1..Len(trace) :
          /\ IsFrame(trace[i])
          /\ Len(RawLines(trace[i].content)) = 3
          /\ IsNullLine(i, 2)
          /\ ~LeavesErrorPayload(i, 2)
          /\ trace[i + 2] = Event("parse", "", <<"{msg}">>, "")
          /\ trace[i + 5] = Event("onPartial", "assistant", <<"x", "e'">>, "")

----------------------------------------------------------------------------
\* C32: two calls that share one plugin object do not disturb each other,
\* however their reads interleave.  No step changes the plugin; a step of the
\* running call leaves the suspended call as it is; and what each call has
\* reported to its handlers and queued on its outbound stream is what the
\* call does when it runs alone on its own upstream (a prefix of it while the
\* call is streaming).

\* The call running alone: its input read at once, then end-of-input.
RunAlone(inp) ==
    LET r == ChunkRead(FreshEngine, <<>>, <<>>, inp)
    IN  IF r.s.term # "none" THEN r.s ELSE EndOfInput(r.s, r.buffer)

HasFailed(tr) == \E i \in 1..Len(tr) : tr[i].ev = "throw"

AsAlone(inst) ==
    (inst.pc \in {"streaming", "completed", "errored"} /\ ~HasFailed(inst.trace)) =>
        /\ IsPrefix(StreamCalls(inst.trace), StreamCalls(RunAlone(inst.input).trace))
        /\ inst.pc # "streaming" =>
              /\ StreamCalls(inst.trace) = StreamCalls(RunAlone(inst.input).trace)
              /\ inst.out = RunAlone(inst.input).out
              /\ inst.outState = RunAlone(inst.input).outState
              /\ inst.fullResponse = RunAlone(inst.input).fullResponse

C32_InstancesAreIndependent ==
    /\ [](AsAlone(Running) /\ AsAlone(other))
    /\ [][/\ plugin' = plugin
          /\ other' = other \/ (other' = Running /\ Running' = other)]_vars

\* Both calls are in the middle of their streams: the suspended one has a
\* part of a frame in its buffer and a character cut in its decoder, the
\* running one another text in its own buffer.
C32_Witness ==
    /\ pc = "streaming"
    /\ other.pc = "streaming"
    /\ other.buffer # <<>>
    /\ other.pending # <<>>
    /\ buffer # <<>>
    /\ buffer # other.buffer
    /\ input # other.input

----------------------------------------------------------------------------
\* C33: under fair scheduling -- the plugin's promise settles, the upstream
\* delivers its bytes and then signals end-of-input, unless a read fails --
\* every instance eventually is Completed or Errored, its terminal callback
\* made and its outbound stream closed or errored; whether the end comes by
\* the sentinel, an error payload, a failed read or end-of-input.
HasEnded ==
    /\ Terminated
    /\ \E i \in 1..Len(trace) : IsTerminalCall(trace[i])
    /\ outState \in {"closed", "errored"}

C33_Terminates == <>[]HasEnded

\* An instance that read two content frames and then ended at end-of-input.
C33_Witness ==
    /\ HasEnded
    /\ pc = "completed"
    /\ pos = Len(input)
    /\ Len(out) = 2
    /\ trace[Len(trace)].ev = "close"
    /\ ~\E i \in 1..Len(trace) : IsSentinelDone(i)

----------------------------------------------------------------------------
\* C34: the order at the end of a run.  On the sentinel and at end-of-input
\* onDone is called after every write and right before the stream is closed;
\* on a failed read the stream is errored first and onError called next; on
\* an in-band error payload (revision part_001) onError is called first and
\* the stream errored next.
IsWrite(e) == e.ev = "enqueue"

C34_TerminalOrdering ==
    \A i \in 1..Len(trace) :
        /\ trace[i].ev = "onDone" =>
              /\ Len(trace) = i + 1
              /\ trace[i + 1].ev = "close"
              /\ SelectSeq(After(i), IsWrite) = <<>>
              /\ out = EnqueuedChunks(Before(i))
        /\ IsReadFailure(i) =>
              /\ Len(trace) = i + 2
              /\ trace[i + 1].ev = "error" /\ trace[i + 1].err = "read"
              /\ trace[i + 2].ev = "onError" /\ trace[i + 2].err = "read"
        /\ (rev = "part_001" /\ IsErrorFrame(i)) =>
              /\ Len(trace) = i + 2
              /\ trace[i + 1].ev = "onError" /\ trace[i + 1].err = "X"
              /\ trace[i + 2].ev = "error" /\ trace[i + 2].err = "X"
        /\ trace[i].ev = "close" =>
              (PrepareHasFailed \/ (i > 1 /\ trace[i - 1].ev = "onDone"))

\* A run that wrote two chunks, then called onDone for the sentinel and
\* closed the stream.
C34_Witness ==
    /\ Len(trace) >= 4
    /\ trace[Len(trace)].ev = "close"
    /\ trace[Len(trace) - 1].ev = "onDone"
    /\ IsSentinelDone(Len(trace) - 1)
    /\ Len(out) = 2
    /\ outState = "closed"

----------------------------------------------------------------------------
\* C35: an onError call made by the catch block of the read loop carries the
\* concatenation of the contents of the onPartial calls made before it: the
\* aggregate holds no text that onPartial did not report, also when the
\* write of a frame's text fails because the consumer cancelled the stream.
IsCatchCall(e) == e.ev = "onError" /\ e.err \in {"read", "TypeError", "SyntaxError"}

C35_CatchCarriesReportedText ==
    \A i \in 1..Len(trace) :
        IsCatchCall(trace[i]) => trace[i].content = PartialText(Before(i))

----------------------------------------------------------------------------
\* C36: an exception of onPartial or onDone, called from the read loop, is
\* caught by the loop.  Right after the call that throws the outbound
\* stream is errored with the exception and onError is called with it and
\* with fullResponse, and nothing else happens in the run: an onDone call
\* that throws is followed by an onError call, and onDone is never called a
\* second time.
Throws(e) == IsHandlerCall(e) /\ e.ev \in throwing

DoneCalls == { i \in 1..Len(trace) : trace[i].ev = "onDone" }

C36_HandlerExceptionIsCaught ==
    /\ \A i \in 1..Len(trace) :
          Throws(trace[i]) =>
              /\ Len(trace) = i + 3
              /\ trace[i + 1] = Event("throw", "", <<>>, "HandlerError")
              /\ trace[i + 2] = Event("error", "", <<>>, "HandlerError")
              /\ trace[i + 3] = Event("onError", "assistant", fullResponse, "HandlerError")
              /\ outState = "errored"
              /\ outError = "HandlerError"
              /\ pc = "errored"
    /\ Cardinality(DoneCalls) <= 1
    /\ pc # "unhandled"

\* onDone threw after a partial was reported: onError follows with the
\* aggregate.
C36_Witness ==
    /\ "onDone" \in throwing
    /\ "onPartial" \notin throwing
    /\ fullResponse # <<>>
    /\ \E i \in 1..Len(trace) : trace[i].ev = "onDone"
    /\ trace[Len(trace)].ev = "onError"

----------------------------------------------------------------------------
\* C37: the engine never cancels or releases the upstream reader.  From the
\* moment it takes the reader (the preparation succeeded and start() ran)
\* the reader is locked, in every state and whatever ended the run -- the
\* sentinel, an in-band error payload, a failed read, end-of-input -- and
\* once the run has ended no further byte is read: what the upstream holds
\* after the terminating frame stays unread.
TookReader ==
    /\ pc \notin {"preparing", "prepared"}
    /\ \A i \in 1..Len(trace) : trace[i] # Event("throw", "", <<>>, "prepare")

RunIsOver == pc \in {"completed", "errored", "unhandled"}

C37_ReaderStaysLocked ==
    /\ [](readerLocked <=> TookReader)
    /\ [][RunIsOver => (pos' = pos /\ readerLocked' = readerLocked)]_vars

\* The sentinel ended the run while the upstream still held bytes.
C37_Witness ==
    /\ pc = "completed"
    /\ readerLocked
    /\ pos < Len(input)
    /\ \E i \in 1..Len(trace) : trace[i].ev = "onDone"

----------------------------------------------------------------------------
\* C38: the revisions are equivalent.  From every reachable state of any
\* revision, every step -- the failed preparation, the echo of the messages,
\* a chunk of any size, end-of-input, a failed read -- makes under
\* streaming-engine.ts and under part_000 the same handler calls, outbound
\* chunks, stream state, aggregate, residual buffer and outcome; and under
\* part_001 the same again, unless a frame or the residual buffer processed
\* in the step is an in-band error payload (a JSON object with an
\* error.message, after an optional data: prefix).  Holding for every step,
\* it holds for whole runs, on every input and chunking.
AsRevision(s, r) == [s EXCEPT !.rev = r]

IsInBandError(text) ==
    LET body == StripDataPrefix(Trim(text))
    IN  StartsWithBrace(body) /\ JSONParse(body).ok /\ JSONParse(body).hasError

\* The step that led to s met an error payload.
MetErrorPayload(s) ==
    \E i \in (Len(trace) + 1)..Len(s.trace) :
        s.trace[i].ev = "frame" /\ IsInBandError(s.trace[i].content)

SameCallsAndBytes(a, b) ==
    /\ HandlerCalls(SubSeq(a.trace, Len(trace) + 1, Len(a.trace)))
           = HandlerCalls(SubSeq(b.trace, Len(trace) + 1, Len(b.trace)))
    /\ a.fullResponse = b.fullResponse
    /\ a.out = b.out
    /\ a.outState = b.outState
    /\ a.outError = b.outError
    /\ a.thrown = b.thrown
    /\ a.term = b.term

\* The steps a and b of two revisions agree, unless one of them is of
\* part_001 and met an error payload.
Equivalent(a, b) ==
    (\A s \in {a, b} : s.rev = "part_001" => ~MetErrorPayload(s)) => SameCallsAndBytes(a, b)

C38_RevisionsAreEquivalent ==
    \A r \in AllRevisions :
        /\ pc = "preparing" =>
              /\ Equivalent(PrepareFailed(Engine), PrepareFailed(AsRevision(Engine, r)))
              /\ Equivalent(Echo(Engine, systemMessage), Echo(AsRevision(Engine, r), systemMessage))
        /\ pc = "streaming" =>
              /\ \A n \in 1..(Len(input) - pos) :
                    LET chunk == SubSeq(input, pos + 1, pos + n)
                        a     == ChunkRead(Engine, pending, buffer, chunk)
                        b     == ChunkRead(AsRevision(Engine, r), pending, buffer, chunk)
                    IN  /\ Equivalent(a.s, b.s)
                        /\ a.buffer = b.buffer
                        /\ a.pending = b.pending
              /\ Equivalent(EndOfInput(Engine, buffer), EndOfInput(AsRevision(Engine, r), buffer))
              /\ Equivalent(ReadFailed(Engine), ReadFailed(AsRevision(Engine, r)))

\* A run of part_001 with a debug flag that only part_000 takes for set has
\* met an object that is no error, and completed.
C38_Witness ==
    /\ rev = "part_001"
    /\ debug.kind = "object"
    /\ pc = "completed"
    /\ \E i \in 1..Len(trace) : trace[i].ev = "frame" /\ trace[i].content = <<"{msg}">>

----------------------------------------------------------------------------
\* C39 (revision part_001): the error sniffer looks at the trimmed frame as
\* a whole.  A frame of several lines, one of which is an error object
\* {"error":{"message":X}} (after an optional data: prefix), is not reported
\* as an error: no onError call and no error of the outbound stream follow
\* the frame, and its lines are given to the line parser, the first of them
\* right after the frame was taken up.
TrimmedLines(text) == MapTrim(Split(text, <<"LF">>))

HasErrorLine(text) ==
    \E k \in 1..Len(TrimmedLines(text)) : IsErrorPayload(TrimmedLines(text)[k])

IsMultiLineErrorFrame(i) ==
    /\ trace[i].ev = "frame"
    /\ Len(TrimmedLines(trace[i].content)) > 1
    /\ HasErrorLine(trace[i].content)

C39_SnifferReadsWholeFrame ==
    rev = "part_001" =>
        \A i \in 1..Len(trace) :
            IsMultiLineErrorFrame(i) =>
                /\ i < Len(trace)
                /\ trace[i + 1].ev \notin {"onError", "error"}
                /\ trace[i + 1] = Event("parse", "",
                                        Head(LinesToParse(trace[i].content, trace[i].role = "loop")), "")

====
